---- MODULE Spec2Model ----
(***************************************************************************)
(* Model of the AArch64 dynamic recompiler's integer translators           *)
(* (Source/Core/Core/PowerPC/JitArm64/JitArm64_Integer.cpp) and of the      *)
(* entry points of the floating-point translators                          *)
(* (JitArm64_FloatingPoint.cpp).                                           *)
(*                                                                         *)
(* A translator runs at translation time: it reads and updates the         *)
(* register cache (gpr) and the carry tracker (js.carryFlag) and emits     *)
(* host instructions.  The model runs every emitted instruction on a       *)
(* concrete host machine as it is emitted, so a state holds both the       *)
(* translation-time bookkeeping and the run-time values the emitted code   *)
(* produces for one concrete guest state.                                  *)
(*                                                                         *)
(* Words are sets of bit positions: a u32 is a subset of 0..31, a u64 a    *)
(* subset of 0..63 (bit i set iff i is in the set).                        *)
(***************************************************************************)
EXTENDS Integers, Sequences, FiniteSets, TLC

\* ------------------------------------------------------------------ bounds
\* guest general-purpose registers of the modelled block
NumGuestRegs == 2
\* guest instructions translated in one block
MaxInsts == 2
\* host registers the allocator can hand out before it has to spill
MaxFreeRegs == 1

Regs == 0..(NumGuestRegs - 1)

\* ------------------------------------------------------------ bit vectors
B32 == 0..31
B64 == 0..63
Zero == {}
One == {0}
AllOnes32 == B32
SignBit32 == {31}
MaxPos32 == 0..30

Trunc32(x) == x \cap B32
Not32(x) == B32 \ x
Not64(x) == B64 \ x
SExt32(x) == IF 31 \in x THEN Trunc32(x) \cup (32..63) ELSE Trunc32(x)
Bit(b, i) == IF b THEN {i} ELSE {}

RECURSIVE AddBits(_, _, _, _, _)
\* ripple addition of bits i..w-1 with carry c into bit i: <<sum bits, carry out>>
AddBits(a, b, c, i, w) ==
  IF i = w THEN <<{}, c>>
  ELSE LET n == (IF i \in a THEN 1 ELSE 0) + (IF i \in b THEN 1 ELSE 0) + (IF c THEN 1 ELSE 0)
           r == AddBits(a, b, n >= 2, i + 1, w)
       IN  <<IF n % 2 = 1 THEN r[1] \cup {i} ELSE r[1], r[2]>>

\* a + b + cin on 32 bits: value and carry out of bit 31
Add32(a, b, cin) ==
  LET r == AddBits(Trunc32(a), Trunc32(b), cin, 0, 32) IN [v |-> r[1], c |-> r[2]]
\* a + b + cin on 64 bits
Add64(a, b, cin) ==
  LET lo == AddBits(a, b, cin, 0, 32)
      hi == AddBits(a, b, lo[2], 32, 64)
  IN  [v |-> lo[1] \cup hi[1], c |-> hi[2]]
\* a - b on 32 / 64 bits (a + ~b + 1); c is the AArch64 carry (no borrow)
Sub32(a, b) == Add32(a, Not32(Trunc32(b)), TRUE)
Sub64(a, b) == Add64(a, Not64(b), TRUE)

Neg32(x) == Sub32(Zero, x).v
Abs32(x) == IF 31 \in x THEN Neg32(x) ELSE Trunc32(x)

RECURSIVE ToNat(_, _)
\* the number held in bits 0..i of x, i <= 30
ToNat(x, i) == IF i < 0 THEN 0 ELSE (IF i \in x THEN 2^i ELSE 0) + ToNat(x, i - 1)
FromNat(n) == {i \in 0..30 : (n \div 2^i) % 2 = 1}
\* quotient of two magnitudes 0..2^31, d # 0
UDivMag(n, d) ==
  IF n = SignBit32
  THEN IF d = SignBit32 THEN One
       ELSE IF d = One THEN SignBit32
       ELSE LET dn == ToNat(d, 30)
                q == 2147483647 \div dn
            IN  FromNat(IF 2147483647 % dn = dn - 1 THEN q + 1 ELSE q)
  ELSE IF d = SignBit32 THEN Zero
  ELSE FromNat(ToNat(n, 30) \div ToNat(d, 30))
\* signed division truncating toward zero; x / 0 = 0 and INT_MIN / -1 = INT_MIN (AArch64 SDIV)
SDiv32(a, b) ==
  IF Trunc32(b) = Zero THEN Zero
  ELSE LET q == UDivMag(Abs32(a), Abs32(b))
       IN  IF (31 \in a) # (31 \in b) THEN Neg32(q) ELSE q

\* shifts of a w-bit word by n, 0 <= n
Lsl(x, n, w) == {i + n : i \in x} \cap (0..(w - 1))
Lsr(x, n) == {i - n : i \in {k \in x : k >= n}}
Asr(x, n, w) == Lsr(x, n) \cup (IF (w - 1) \in x THEN {k \in 0..(w - 1) : k >= w - n} ELSE {})
\* the number held in bits 0..5 of x
Low6(x) ==
  (IF 0 \in x THEN 1 ELSE 0) + (IF 1 \in x THEN 2 ELSE 0) + (IF 2 \in x THEN 4 ELSE 0)
  + (IF 3 \in x THEN 8 ELSE 0) + (IF 4 \in x THEN 16 ELSE 0) + (IF 5 \in x THEN 32 ELSE 0)

\* unsigned and signed order on words
ULt(a, b) == \E i \in b \ a : \A j \in a \cup b : j > i => (j \in a <=> j \in b)
SLt(a, b) == IF (31 \in a) # (31 \in b) THEN 31 \in a ELSE ULt(Trunc32(a), Trunc32(b))

\* the number held in the n bits of x from bit lo up, n <= 31
Chunk(x, lo, n) == ToNat(Lsr(x \cap (lo..(lo + n - 1)), lo), n - 1)
\* low 32 bits of the product, by limbs of 15 bits
Mul32(a, b) ==
  LET a0 == Chunk(a, 0, 15)
      a1 == Chunk(a, 15, 15)
      a2 == Chunk(a, 30, 2)
      b0 == Chunk(b, 0, 15)
      b1 == Chunk(b, 15, 15)
      b2 == Chunk(b, 30, 2)
      p0 == a0 * b0
      p1 == a0 * b1 + a1 * b0
      p2 == (a0 * b2 + a1 * b1 + a2 * b0) % 4
      s1 == Add32(FromNat(p0), Lsl(FromNat(p1), 15, 32), FALSE).v
  IN  Add32(s1, Lsl(FromNat(p2), 30, 32), FALSE).v
\* a + b on 64 bits, each operand evaluated once
Sum64(a, b) == CHOOSE s \in {Add64(x, y, FALSE).v : x \in {a}, y \in {b}} : TRUE
\* one limb product moved to its place in the 64-bit product
Limb(x, y, lo, n, lo2, n2) == Lsl(FromNat(Chunk(x, lo, n) * Chunk(y, lo2, n2)), lo + lo2, 64)
\* the sum of the products of limb (lo, n) of x with the three limbs of y
LimbRow(x, y, lo, n) ==
  Sum64(Limb(x, y, lo, n, 0, 15), Sum64(Limb(x, y, lo, n, 15, 15), Limb(x, y, lo, n, 30, 2)))
\* the 64-bit product of two unsigned 32-bit words, by limbs of 15 bits
UMul64(a, b) ==
  Sum64(LimbRow(a, b, 0, 15), Sum64(LimbRow(a, b, 15, 15), LimbRow(a, b, 30, 2)))
\* the 64-bit product of two signed 32-bit words: sext(x) = x - 2^32 * x[31]
SMul64(a, b) ==
  CHOOSE s \in {IF 31 \in b THEN Sub64(u1, Lsl(Trunc32(a), 32, 64)).v ELSE u1 :
                u1 \in {IF 31 \in a THEN Sub64(u, Lsl(Trunc32(b), 32, 64)).v ELSE u :
                        u \in {UMul64(Trunc32(a), Trunc32(b))}}} : TRUE

\* unsigned division; x / 0 = 0 (AArch64 UDIV)
UDiv32(a, b) ==
  LET n == Trunc32(a)
      d == Trunc32(b)
  IN  IF d = Zero THEN Zero
      ELSE IF d = One THEN n
      ELSE IF 31 \in d THEN (IF ULt(n, d) THEN Zero ELSE One)
      ELSE LET dn == ToNat(d, 30)
               nh == ToNat(Lsr(n, 1), 30)
               n0 == IF 0 \in n THEN 1 ELSE 0
               qq == nh \div dn
               rr == nh % dn
           IN  FromNat(2 * qq + (IF rr >= dn - rr - n0 THEN 1 ELSE 0))

\* -------------------------------------------------- carry tracker states
InPPCState == "InPPCState"
InHostCarry == "InHostCarry"
ConstantTrue == "ConstantTrue"
ConstantFalse == "ConstantFalse"
CarryFlag == {InPPCState, InHostCarry, ConstantTrue, ConstantFalse}

\* ------------------------------------------------------- host machine
(* A machine m is a record:                                                 *)
(*   gpr        guest register slots [t: "Imm" | "Reg" | "Mem", v: value]    *)
(*   cr         the condition-register field slot [t: "Reg" | "Mem", v]      *)
(*   tmp        contents of the temporary host registers; WF is the one     *)
(*              FlushCarry takes while a translator may still hold WA        *)
(*   locked     temporaries handed out by GetReg and not yet unlocked        *)
(*   free       host registers the allocator can hand out without spilling   *)
(*   stale      what a freshly acquired host register happens to hold        *)
(*   nzc        host condition flags N, Z, C                                 *)
(*   xer_ca     the xer_ca byte of the guest state block                     *)
(*   carryFlag  js.carryFlag                                                 *)
(*   wantsCA, canMerge, nextInteger, nextWantsCAInFlags                      *)
(*              js.op->wantsCA, CanMergeNextInstructions(1),                 *)
(*              js.op[1].opinfo->type == Integer, js.op[1].wantsCAInFlags    *)
(*   code       host instructions emitted for the current guest instruction, *)
(*              each with the tracker state it was emitted under             *)
(*   fpr        guest floating-point slots [t: "Reg" | "Mem", single]        *)
(*   fpr_is_store_safe, bFPRF, wantsFPRF                                     *)
(*              js.fpr_is_store_safe (one value for all registers),         *)
(*              SConfig bFPRF, js.op->wantsFPRF; cpu_info.bAFP is false      *)
(*   fprIsSingle  js.op->fprIsSingle                                         *)
(*   fval, vreg   raw bits of the guest floating-point registers and of the  *)
(*              host vector registers, two 64-bit lanes each                 *)
(*   fz, farcode  FPCR.FZ of the host; IsInFarCode()                         *)
(*   used       caller-saved host registers in use (GetCallerSavedUsed)      *)
(*   clobbered  host registers that lost the value they had on entry         *)
(*   stack, abi the host stack; the pushes, calls and pops emitted           *)
(*   xreg       host registers X0 and X1                                     *)
(*   fcmp, skip the order the last FCMP found; the label a taken branch      *)
(*              is heading for ("" when instructions are executed)           *)
(*   wrote      the conversions that wrote the destination register          *)
(*   bJITIntegerOff, bJITFloatingPointOff   the JIT class switches           *)
Temps == {"WA", "WB", "WF"}

G(i) == <<"g", i>>
T(n) == <<"t", n>>
WZR == <<"z">>
WSP == WZR
CRX == <<"cr">>

\* 64-bit content of a host register operand
Rd64(m, loc) ==
  CASE loc[1] = "g" -> m.gpr[loc[2]].v
    [] loc[1] = "t" -> m.tmp[loc[2]]
    [] loc[1] = "cr" -> m.cr.v
    [] OTHER -> Zero
\* W-register view
Rd(m, loc) == Trunc32(Rd64(m, loc))

Wr64(m, loc, v) ==
  CASE loc[1] = "g" -> [m EXCEPT !.gpr[loc[2]].v = v]
    [] loc[1] = "t" -> [m EXCEPT !.tmp[loc[2]] = v]
    [] loc[1] = "cr" -> [m EXCEPT !.cr.v = v]
    [] OTHER -> m
\* a write to a W register clears bits 32..63
Wr(m, loc, v) == Wr64(m, loc, Trunc32(v))

Emit(m, op) == [m EXCEPT !.code = Append(@, [op |-> op, cf |-> m.carryFlag])]
RECURSIVE EmitAll(_, _)
\* instructions emitted on a path that is not executed
EmitAll(m, ops) == IF ops = <<>> THEN m ELSE EmitAll(Emit(m, Head(ops)), Tail(ops))
SetNZC(m, v, c) == [m EXCEPT !.nzc = [n |-> 31 \in v, z |-> Trunc32(v) = Zero, c |-> c]]

\* ---- host instructions; register operands are locations, immediates are values
MOV(m, d, x) == Wr(Emit(m, "MOV"), d, Rd(m, x))
MVN(m, d, x) == Wr(Emit(m, "MVN"), d, Not32(Rd(m, x)))
MOVI2R(m, d, imm) == Wr(Emit(m, "MOVI2R"), d, imm)
MOVI2R64(m, d, imm) == Wr64(Emit(m, "MOVI2R"), d, imm)
ADD(m, d, x, y) == Wr(Emit(m, "ADD"), d, Add32(Rd(m, x), Rd(m, y), FALSE).v)
ADDS(m, d, x, y) ==
  LET r == Add32(Rd(m, x), Rd(m, y), FALSE)
  IN  SetNZC(Wr(Emit(m, "ADDS"), d, r.v), r.v, r.c)
\* ADD / ADDS with a 12-bit immediate operand
ADD_imm(m, d, x, imm) == Wr(Emit(m, "ADD"), d, Add32(Rd(m, x), imm, FALSE).v)
ADDS_imm(m, d, x, imm) ==
  LET r == Add32(Rd(m, x), imm, FALSE)
  IN  SetNZC(Wr(Emit(m, "ADDS"), d, r.v), r.v, r.c)
ADC(m, d, x, y) == Wr(Emit(m, "ADC"), d, Add32(Rd(m, x), Rd(m, y), m.nzc.c).v)
ADCS(m, d, x, y) ==
  LET r == Add32(Rd(m, x), Rd(m, y), m.nzc.c)
  IN  SetNZC(Wr(Emit(m, "ADCS"), d, r.v), r.v, r.c)
SUB(m, d, x, y) == Wr(Emit(m, "SUB"), d, Sub32(Rd(m, x), Rd(m, y)).v)
SUBS(m, d, x, y) ==
  LET r == Sub32(Rd(m, x), Rd(m, y))
  IN  SetNZC(Wr(Emit(m, "SUBS"), d, r.v), r.v, r.c)
NEG(m, d, x) == Wr(Emit(m, "NEG"), d, Sub32(Zero, Rd(m, x)).v)
NEGS(m, d, x) ==
  LET r == Sub32(Zero, Rd(m, x))
  IN  SetNZC(Wr(Emit(m, "NEGS"), d, r.v), r.v, r.c)
CMP(m, x, y) == LET r == Sub32(Rd(m, x), Rd(m, y)) IN SetNZC(Emit(m, "CMP"), r.v, r.c)
CMPI(m, x, imm) == LET r == Sub32(Rd(m, x), imm) IN SetNZC(Emit(m, "CMP"), r.v, r.c)
CMN(m, x, y) == LET r == Add32(Rd(m, x), Rd(m, y), FALSE) IN SetNZC(Emit(m, "CMN"), r.v, r.c)
\* condition codes
CC_CS == "CS"
CC_CC == "CC"
CC_EQ == "EQ"
CC_NEQ == "NEQ"
Cond(m, cc) ==
  CASE cc = CC_CS -> m.nzc.c
    [] cc = CC_CC -> ~m.nzc.c
    [] cc = CC_EQ -> m.nzc.z
    [] cc = CC_NEQ -> ~m.nzc.z
\* CCMN x, #imm, #0, cc: compares when cc holds, else sets NZCV to 0
CCMN(m, x, imm, cc) ==
  IF Cond(m, cc)
  THEN LET r == Add32(Rd(m, x), imm, FALSE) IN SetNZC(Emit(m, "CCMN"), r.v, r.c)
  ELSE [Emit(m, "CCMN") EXCEPT !.nzc = [n |-> FALSE, z |-> FALSE, c |-> FALSE]]
\* ANDS / TST with the second operand shifted left by n
ANDS(m, d, x, y, n) ==
  LET r == Rd(m, x) \cap Lsl(Rd(m, y), n, 32)
  IN  SetNZC(Wr(Emit(m, "ANDS"), d, r), r, FALSE)
TST(m, x, y, n) ==
  LET r == Rd(m, x) \cap Lsl(Rd(m, y), n, 32) IN SetNZC(Emit(m, "TST"), r, FALSE)
ADDI2R(m, d, x, imm) == Wr(Emit(m, "ADDI2R"), d, Add32(Rd(m, x), imm, FALSE).v)
ADDSI2R(m, d, x, imm) ==
  LET r == Add32(Rd(m, x), imm, FALSE)
  IN  SetNZC(Wr(Emit(m, "ADDSI2R"), d, r.v), r.v, r.c)
SXTW(m, d, x) == Wr64(Emit(m, "SXTW"), d, SExt32(Rd(m, x)))
SUB64(m, d, x, y) == Wr64(Emit(m, "SUB"), d, Sub64(Rd64(m, x), Rd64(m, y)).v)
SUBI2R64(m, d, x, imm) == Wr64(Emit(m, "SUBI2R"), d, Sub64(Rd64(m, x), imm).v)
ASR(m, d, x, n) == Wr(Emit(m, "ASR"), d, Asr(Rd(m, x), n, 32))
LSL(m, d, x, n) == Wr(Emit(m, "LSL"), d, Lsl(Rd(m, x), n, 32))
LSR(m, d, x, n) == Wr(Emit(m, "LSR"), d, Lsr(Rd(m, x), n))
LSL64(m, d, x, n) == Wr64(Emit(m, "LSL"), d, Lsl(Rd64(m, x), n, 64))
LSR64(m, d, x, n) == Wr64(Emit(m, "LSR"), d, Lsr(Rd64(m, x), n))
\* ASRV, LSLV, LSRV on X registers: the shift amount is the low 6 bits of y
ASRV64(m, d, x, y) == Wr64(Emit(m, "ASRV"), d, Asr(Rd64(m, x), Low6(Rd64(m, y)), 64))
LSLV64(m, d, x, y) == Wr64(Emit(m, "LSLV"), d, Lsl(Rd64(m, x), Low6(Rd64(m, y)), 64))
LSRV64(m, d, x, y) == Wr64(Emit(m, "LSRV"), d, Lsr(Rd64(m, x), Low6(Rd64(m, y))))
\* Common::RotateLeft and the rotate-right of a shifted operand
RotateLeft(x, n) == {(i + n) % 32 : i \in Trunc32(x)}
RotateRight(x, n) == {(i + 32 - n) % 32 : i \in Trunc32(x)}
\* MakeRotationMask: begin = 0xFFFFFFFF >> mb, end = 0x7FFFFFFF >> me,
\* begin ^ end, complemented when me < mb
MakeRotationMask(mb, me) ==
  LET begin == Lsr(AllOnes32, mb)
      end == Lsr(MaxPos32, me)
      mask == (begin \ end) \cup (end \ begin)
  IN  IF me < mb THEN Not32(mask) ELSE mask
ANDI2R(m, d, x, imm) == Wr(Emit(m, "ANDI2R"), d, Rd(m, x) \cap imm)
\* AND with the second operand rotated right by n (1..31)
AND_ROR(m, d, x, y, n) ==
  LET p == Wr(Emit(m, "AND"), d, Rd(m, x) \cap RotateRight(Rd(m, y), n))
  IN  IF n \in 0..31 THEN p ELSE [p EXCEPT !.fault = TRUE]
\* UBFX / UBFIZ on W registers; the field must lie inside the register
UBFX(m, d, x, lsb, width) ==
  LET p == Wr(Emit(m, "UBFX"), d, Lsr(Rd(m, x), lsb) \cap (0..(width - 1)))
  IN  IF lsb \in 0..31 /\ width >= 1 /\ lsb + width <= 32 THEN p
      ELSE [p EXCEPT !.fault = TRUE]
UBFIZ(m, d, x, lsb, width) ==
  LET p == Wr(Emit(m, "UBFIZ"), d, Lsl(Rd(m, x) \cap (0..(width - 1)), lsb, 32))
  IN  IF lsb \in 0..31 /\ width >= 1 /\ lsb + width <= 32 THEN p
      ELSE [p EXCEPT !.fault = TRUE]
\* ROR by an immediate 1..31
ROR(m, d, x, n) ==
  LET p == Wr(Emit(m, "ROR"), d, RotateRight(Rd(m, x), n))
  IN  IF n \in 0..31 THEN p ELSE [p EXCEPT !.fault = TRUE]
\* BFXIL: bits lsb..lsb+width-1 of x replace bits 0..width-1 of d
BFXIL(m, d, x, lsb, width) ==
  LET low == 0..(width - 1)
      p == Wr(Emit(m, "BFXIL"), d, (Rd(m, d) \ low) \cup (Lsr(Rd(m, x), lsb) \cap low))
  IN  IF lsb \in 0..31 /\ width >= 1 /\ lsb + width <= 32 THEN p
      ELSE [p EXCEPT !.fault = TRUE]
\* BFI: bits 0..width-1 of x replace bits lsb..lsb+width-1 of d
BFI(m, d, x, lsb, width) ==
  LET field == lsb..(lsb + width - 1)
      p == Wr(Emit(m, "BFI"), d,
              (Rd(m, d) \ field) \cup (Lsl(Rd(m, x) \cap (0..(width - 1)), lsb, 32)))
  IN  IF lsb \in 0..31 /\ width >= 1 /\ lsb + width <= 32 THEN p
      ELSE [p EXCEPT !.fault = TRUE]
BIC(m, d, x, y) == Wr(Emit(m, "BIC"), d, Rd(m, x) \ Rd(m, y))
ORR(m, d, x, y) == Wr(Emit(m, "ORR"), d, Rd(m, x) \cup Rd(m, y))
SDIV(m, d, x, y) == Wr(Emit(m, "SDIV"), d, SDiv32(Rd(m, x), Rd(m, y)))
UDIV(m, d, x, y) == Wr(Emit(m, "UDIV"), d, UDiv32(Rd(m, x), Rd(m, y)))
MUL(m, d, x, y) == Wr(Emit(m, "MUL"), d, Mul32(Rd(m, x), Rd(m, y)))
\* SMULL / UMULL Xd, Wn, Wm: the 64-bit product of the extended W registers
SMULL(m, d, x, y) == Wr64(Emit(m, "SMULL"), d, SMul64(Rd(m, x), Rd(m, y)))
UMULL(m, d, x, y) == Wr64(Emit(m, "UMULL"), d, UMul64(Rd(m, x), Rd(m, y)))
CSET(m, d, cc) == Wr(Emit(m, "CSET"), d, Bit(Cond(m, cc), 0))
\* CSINC d, WZR, WZR, cc: 0 when cc holds, else 0 + 1
CSINC(m, d, cc) == Wr(Emit(m, "CSINC"), d, Bit(~Cond(m, cc), 0))
LDRB_xer_ca(m, d) == Wr(Emit(m, "LDRB xer_ca"), d, m.xer_ca)
STRB_xer_ca(m, x) == [Emit(m, "STRB xer_ca") EXCEPT !.xer_ca = Rd(m, x) \cap (0..7)]

\* ---------------------------------------------------- register cache
\* Acquire a host register: free of charge while one is free, otherwise an
\* unrelated guest register is spilled to the guest state block first.
TakeHostReg(m) ==
  IF m.free = 0 THEN Emit(m, "STR spill") ELSE [m EXCEPT !.free = @ - 1]

\* gpr.GetReg(): lock temporary t
GetReg(m, t) ==
  LET m1 == TakeHostReg(m)
  IN  [m1 EXCEPT !.locked = @ \cup {t}, !.tmp[t] = m.stale]

\* gpr.Unlock(t)
Unlock(m, t) ==
  [m EXCEPT !.locked = @ \ {t}, !.tmp[t] = Zero, !.free = @ + 1]

IsImm(m, i) == m.gpr[i].t = "Imm"
GetImm(m, i) == Trunc32(m.gpr[i].v)

\* gpr.BindToRegister(i, do_load)
BindToRegister(m, i, do_load) ==
  LET s == m.gpr[i]
  IN  IF s.t = "Reg" THEN m
      ELSE LET m1 == TakeHostReg(m)
               m2 == IF do_load
                     THEN Emit(m1, IF s.t = "Imm" THEN "MOVI2R" ELSE "LDR")
                     ELSE m1
           IN  [m2 EXCEPT !.gpr[i] = [t |-> "Reg", v |-> IF do_load THEN s.v ELSE m.stale]]

\* gpr.R(i): the host register of slot i, materialised when it is not bound
R(m, i) == BindToRegister(m, i, TRUE)

\* gpr.SetImmediate(i, imm)
SetImmediate(m, i, imm) ==
  LET m1 == IF m.gpr[i].t = "Reg" THEN [m EXCEPT !.free = @ + 1] ELSE m
  IN  [m1 EXCEPT !.gpr[i] = [t |-> "Imm", v |-> Trunc32(imm)]]

\* gpr.BindCRToRegister(crf, false)
BindCRToRegister(m) ==
  IF m.cr.t = "Reg" THEN m
  ELSE [TakeHostReg(m) EXCEPT !.cr = [t |-> "Reg", v |-> m.stale]]

\* ------------------------------------------------- condition register 0
ComputeRC0_reg(m, x) == SXTW(BindCRToRegister(m), CRX, x)

\* the immediate loaded without the sign extension
ComputeRC0_imm_LoadOnly(m, imm) == MOVI2R64(BindCRToRegister(m), CRX, imm)

ComputeRC0_imm(m, imm) ==
  LET m1 == MOVI2R64(BindCRToRegister(m), CRX, imm)
  IN  IF 31 \in imm THEN SXTW(m1, CRX, CRX) ELSE m1

\* ------------------------------------------------------- carry tracker
SetCarryFlag(m, cf) == [m EXCEPT !.carryFlag = cf]

ComputeCarry_reg(m, reg) ==
  LET m1 == SetCarryFlag(m, InPPCState)
  IN  IF ~m.wantsCA THEN m1
      ELSE IF m.canMerge /\ m.nextWantsCAInFlags
           THEN SetCarryFlag(CMPI(m1, reg, One), InHostCarry)
           ELSE STRB_xer_ca(m1, reg)

\* variant: the constant carry is written to memory at once
ComputeCarry_bool_Stores(m, carry) ==
  SetCarryFlag([Emit(m, "STRB xer_ca") EXCEPT !.xer_ca = Bit(carry, 0)], InPPCState)

\* variant: the two constant states are exchanged
ComputeCarry_bool_Negated(m, carry) ==
  SetCarryFlag(m, IF carry THEN ConstantFalse ELSE ConstantTrue)

ComputeCarry_bool(m, carry) ==
  SetCarryFlag(m, IF carry THEN ConstantTrue ELSE ConstantFalse)

\* variant: the host carry is stored inverted (CSET on carry clear)
FlushCarry_Inverted(m) ==
  LET m1 ==
        CASE m.carryFlag = InPPCState -> m
          [] m.carryFlag = InHostCarry ->
               LET a == GetReg(m, "WF")
                   b == CSET(a, T("WF"), CC_CC)
                   c == STRB_xer_ca(b, T("WF"))
               IN  Unlock(c, "WF")
          [] m.carryFlag = ConstantTrue ->
               LET a == GetReg(m, "WF")
                   b == MOVI2R(a, T("WF"), One)
                   c == STRB_xer_ca(b, T("WF"))
               IN  Unlock(c, "WF")
          [] m.carryFlag = ConstantFalse -> STRB_xer_ca(m, WZR)
  IN  SetCarryFlag(m1, InPPCState)

\* variant: a statically false carry is not written back
FlushCarry_SkipsConstantFalse(m) ==
  LET m1 ==
        CASE m.carryFlag = InPPCState -> m
          [] m.carryFlag = InHostCarry ->
               LET a == GetReg(m, "WF")
                   b == CSET(a, T("WF"), CC_CS)
                   c == STRB_xer_ca(b, T("WF"))
               IN  Unlock(c, "WF")
          [] m.carryFlag = ConstantTrue ->
               LET a == GetReg(m, "WF")
                   b == MOVI2R(a, T("WF"), One)
                   c == STRB_xer_ca(b, T("WF"))
               IN  Unlock(c, "WF")
          [] m.carryFlag = ConstantFalse -> m
  IN  SetCarryFlag(m1, InPPCState)

\* variant: the carry is stored but the tracker is left as it was
FlushCarry_KeepsTracker(m) ==
  CASE m.carryFlag = InPPCState -> m
    [] m.carryFlag = InHostCarry ->
         LET a == GetReg(m, "WF")
             b == CSET(a, T("WF"), CC_CS)
             c == STRB_xer_ca(b, T("WF"))
         IN  Unlock(c, "WF")
    [] m.carryFlag = ConstantTrue ->
         LET a == GetReg(m, "WF")
             b == MOVI2R(a, T("WF"), One)
             c == STRB_xer_ca(b, T("WF"))
         IN  Unlock(c, "WF")
    [] m.carryFlag = ConstantFalse -> STRB_xer_ca(m, WZR)

\* FlushCarry that stores the host carry as a mask (CSETM): 0 or all ones
FlushCarry_StoresMask(m) ==
  LET m1 ==
        CASE m.carryFlag = InPPCState -> m
          [] m.carryFlag = InHostCarry ->
               LET a == GetReg(m, "WF")
                   b == Wr(Emit(a, "CSETM"), T("WF"),
                           IF Cond(a, CC_CS) THEN AllOnes32 ELSE Zero)
                   c == STRB_xer_ca(b, T("WF"))
               IN  Unlock(c, "WF")
          [] m.carryFlag = ConstantTrue ->
               LET a == GetReg(m, "WF")
                   b == MOVI2R(a, T("WF"), One)
                   c == STRB_xer_ca(b, T("WF"))
               IN  Unlock(c, "WF")
          [] m.carryFlag = ConstantFalse -> STRB_xer_ca(m, WZR)
  IN  SetCarryFlag(m1, InPPCState)

\* FlushCarry that keeps its temporary locked after storing the host carry
FlushCarry_KeepsTemporary(m) ==
  LET m1 ==
        CASE m.carryFlag = InPPCState -> m
          [] m.carryFlag = InHostCarry ->
               LET a == GetReg(m, "WF")
                   b == CSET(a, T("WF"), CC_CS)
               IN  STRB_xer_ca(b, T("WF"))
          [] m.carryFlag = ConstantTrue ->
               LET a == GetReg(m, "WF")
                   b == MOVI2R(a, T("WF"), One)
                   c == STRB_xer_ca(b, T("WF"))
               IN  Unlock(c, "WF")
          [] m.carryFlag = ConstantFalse -> STRB_xer_ca(m, WZR)
  IN  SetCarryFlag(m1, InPPCState)

FlushCarry(m) ==
  LET m1 ==
        CASE m.carryFlag = InPPCState -> m
          [] m.carryFlag = InHostCarry ->
               LET a == GetReg(m, "WF")
                   b == CSET(a, T("WF"), CC_CS)
                   c == STRB_xer_ca(b, T("WF"))
               IN  Unlock(c, "WF")
          [] m.carryFlag = ConstantTrue ->
               LET a == GetReg(m, "WF")
                   b == MOVI2R(a, T("WF"), One)
                   c == STRB_xer_ca(b, T("WF"))
               IN  Unlock(c, "WF")
          [] m.carryFlag = ConstantFalse -> STRB_xer_ca(m, WZR)
  IN  SetCarryFlag(m1, InPPCState)

\* variant: the carry stays in host flags whatever the lookahead says
ComputeCarry_NoLookahead(m) ==
  LET m1 == SetCarryFlag(m, InPPCState)
  IN  IF ~m.wantsCA THEN m1 ELSE SetCarryFlag(m1, InHostCarry)

ComputeCarry(m) ==
  LET m1 == SetCarryFlag(m, InPPCState)
  IN  IF ~m.wantsCA THEN m1
      ELSE LET m2 == SetCarryFlag(m1, InHostCarry)
           IN  IF m.canMerge /\ m.nextInteger THEN m2 ELSE FlushCarry(m2)

\* Interpreter::Helper_Carry(a, b): a + b carries out of bit 31
Helper_Carry(a, b) == Add32(a, b, FALSE).c

\* ------------------------------------------------------ fallback bridge
\* JITDISABLE / FALLBACK_IF: the translator returns without emitting code
FallBackToInterpreter(m) == m

\* ------------------------------------------------------- translators
(* An instruction inst is a record of decoded fields:                       *)
(*   RD (= RS), RA, RB register numbers; Rc, OE bits; OPCD;                  *)
(*   SIMM_16 the sign-extended 16-bit immediate, as a u32; UIMM; SH; CRFD    *)

addcx(m, inst) ==
  LET a == inst.RA
      b == inst.RB
      d == inst.RD
  IN  IF m.bJITIntegerOff \/ inst.OE THEN FallBackToInterpreter(m)
      ELSE IF IsImm(m, a) /\ IsImm(m, b)
      THEN LET i == GetImm(m, a)
               j == GetImm(m, b)
               m1 == SetImmediate(m, d, Add32(i, j, FALSE).v)
               has_carry == Helper_Carry(i, j)
               m2 == ComputeCarry_bool(m1, has_carry)
           IN  IF inst.Rc THEN ComputeRC0_imm(m2, GetImm(m2, d)) ELSE m2
      ELSE LET m1 == BindToRegister(m, d, d = a \/ d = b)
               m2 == R(R(m1, a), b)
               m3 == IF m.wantsCA
                     THEN ADDS(m2, G(d), G(a), G(b))
                     ELSE ADD(m2, G(d), G(a), G(b))
               m4 == ComputeCarry(m3)
           IN  IF inst.Rc THEN ComputeRC0_reg(m4, G(d)) ELSE m4

addic(m, inst) ==
  LET a == inst.RA
      d == inst.RD
      rc == inst.OPCD = 13
      imm == inst.SIMM_16
  IN  IF m.bJITIntegerOff THEN FallBackToInterpreter(m)
      ELSE IF IsImm(m, a)
      THEN LET i == GetImm(m, a)
               m1 == SetImmediate(m, d, Add32(i, imm, FALSE).v)
               has_carry == Helper_Carry(i, imm)
               m2 == ComputeCarry_bool(m1, has_carry)
           IN  IF rc THEN ComputeRC0_imm(m2, GetImm(m2, d)) ELSE m2
      ELSE LET m1 == BindToRegister(m, d, d = a)
               m2 == R(GetReg(m1, "WA"), a)
               m3 == IF m.wantsCA
                     THEN ADDSI2R(m2, G(d), G(a), imm)
                     ELSE ADDI2R(m2, G(d), G(a), imm)
               m4 == ComputeCarry(Unlock(m3, "WA"))
           IN  IF rc THEN ComputeRC0_reg(m4, G(d)) ELSE m4

\* subfcx folding the carry without the test for a = 0
subfcx_CarryWithoutZeroTest(m, inst) ==
  LET a == inst.RA
      b == inst.RB
      d == inst.RD
  IN  IF m.bJITIntegerOff \/ inst.OE THEN FallBackToInterpreter(m)
      ELSE IF IsImm(m, a) /\ IsImm(m, b)
      THEN LET a_imm == GetImm(m, a)
               b_imm == GetImm(m, b)
               m1 == SetImmediate(m, d, Sub32(b_imm, a_imm).v)
               m2 == ComputeCarry_bool(m1, Helper_Carry(b_imm, Sub32(Zero, a_imm).v))
           IN  IF inst.Rc THEN ComputeRC0_imm(m2, GetImm(m2, d)) ELSE m2
      ELSE LET m1 == BindToRegister(m, d, d = a \/ d = b)
               m2 == R(R(m1, b), a)
               m3 == IF m.wantsCA
                     THEN SUBS(m2, G(d), G(b), G(a))
                     ELSE SUB(m2, G(d), G(b), G(a))
               m4 == ComputeCarry(m3)
           IN  IF inst.Rc THEN ComputeRC0_reg(m4, G(d)) ELSE m4

subfcx(m, inst) ==
  LET a == inst.RA
      b == inst.RB
      d == inst.RD
  IN  IF m.bJITIntegerOff \/ inst.OE THEN FallBackToInterpreter(m)
      ELSE IF IsImm(m, a) /\ IsImm(m, b)
      THEN LET a_imm == GetImm(m, a)
               b_imm == GetImm(m, b)
               m1 == SetImmediate(m, d, Sub32(b_imm, a_imm).v)
               m2 == ComputeCarry_bool(m1, a_imm = Zero
                                           \/ Helper_Carry(b_imm, Sub32(Zero, a_imm).v))
           IN  IF inst.Rc THEN ComputeRC0_imm(m2, GetImm(m2, d)) ELSE m2
      ELSE LET m1 == BindToRegister(m, d, d = a \/ d = b)
               m2 == R(R(m1, b), a)
               \* d = b - a
               m3 == IF m.wantsCA
                     THEN SUBS(m2, G(d), G(b), G(a))
                     ELSE SUB(m2, G(d), G(b), G(a))
               m4 == ComputeCarry(m3)
           IN  IF inst.Rc THEN ComputeRC0_reg(m4, G(d)) ELSE m4

subfic(m, inst) ==
  LET a == inst.RA
      d == inst.RD
      imm == inst.SIMM_16
  IN  IF m.bJITIntegerOff THEN FallBackToInterpreter(m)
      ELSE IF IsImm(m, a)
      THEN LET a_imm == GetImm(m, a)
               m1 == SetImmediate(m, d, Sub32(imm, a_imm).v)
           IN  ComputeCarry_bool(m1, a_imm = Zero
                                     \/ Helper_Carry(imm, Sub32(Zero, a_imm).v))
      ELSE LET m1 == BindToRegister(m, d, d = a)
               \* d = imm - a
               m2 == MOVI2R(GetReg(m1, "WA"), T("WA"), imm)
               m3 == R(m2, a)
               m4 == IF m.wantsCA
                     THEN SUBS(m3, G(d), T("WA"), G(a))
                     ELSE SUB(m3, G(d), T("WA"), G(a))
           IN  ComputeCarry(Unlock(m4, "WA"))

addzex(m, inst) ==
  LET a == inst.RA
      d == inst.RD
      body ==
        CASE m.carryFlag = InPPCState ->
               LET m1 == BindToRegister(m, d, d = a)
                   WA == IF d = a THEN T("WA") ELSE G(d)
                   m2 == IF d = a THEN GetReg(m1, "WA") ELSE m1
                   m3 == R(LDRB_xer_ca(m2, WA), a)
                   m4 == IF m.wantsCA
                         THEN ADDS(m3, G(d), G(a), WA)
                         ELSE ADD(m3, G(d), G(a), WA)
                   m5 == ComputeCarry(m4)
               IN  IF d = a THEN Unlock(m5, "WA") ELSE m5
          [] m.carryFlag = InHostCarry ->
               LET m1 == R(BindToRegister(m, d, d = a), a)
                   m2 == IF m.wantsCA
                         THEN ADCS(m1, G(d), G(a), WZR)
                         ELSE ADC(m1, G(d), G(a), WZR)
               IN  ComputeCarry(m2)
          [] m.carryFlag = ConstantTrue ->
               LET m1 == R(BindToRegister(m, d, d = a), a)
                   m2 == IF m.wantsCA
                         THEN ADDS_imm(m1, G(d), G(a), One)
                         ELSE ADD_imm(m1, G(d), G(a), One)
               IN  ComputeCarry(m2)
          [] m.carryFlag = ConstantFalse ->
               LET m1 == IF d # a
                         THEN LET x == R(BindToRegister(m, d, FALSE), a)
                              IN  MOV(x, G(d), G(a))
                         ELSE m
               IN  ComputeCarry_bool(m1, FALSE)
  IN  IF m.bJITIntegerOff \/ inst.OE THEN FallBackToInterpreter(m)
      ELSE IF inst.Rc THEN LET x == R(body, d) IN ComputeRC0_reg(x, G(d))
      ELSE body

\* variant: a constant carry is written to xer_ca and read back
subfzex_ViaMemory(m, inst) ==
  LET a == inst.RA
      d == inst.RD
      m0 == BindToRegister(FlushCarry(m), d, d = a)
      m1 == LDRB_xer_ca(GetReg(m0, "WA"), T("WA"))
      m2 == R(m1, a)
      m3 == MVN(m2, G(d), G(a))
      m4 == IF m.wantsCA
            THEN ADDS(m3, G(d), G(d), T("WA"))
            ELSE ADD(m3, G(d), G(d), T("WA"))
      body == Unlock(ComputeCarry(m4), "WA")
  IN  IF m.bJITIntegerOff \/ inst.OE THEN FallBackToInterpreter(m)
      ELSE IF inst.Rc THEN ComputeRC0_reg(body, G(d))
      ELSE body

subfzex(m, inst) ==
  LET a == inst.RA
      d == inst.RD
      m0 == BindToRegister(m, d, d = a)
      body ==
        CASE m.carryFlag = InPPCState ->
               LET m1 == LDRB_xer_ca(GetReg(m0, "WA"), T("WA"))
                   m2 == R(m1, a)
                   m3 == MVN(m2, G(d), G(a))
                   m4 == IF m.wantsCA
                         THEN ADDS(m3, G(d), G(d), T("WA"))
                         ELSE ADD(m3, G(d), G(d), T("WA"))
               IN  Unlock(ComputeCarry(m4), "WA")
          [] m.carryFlag = InHostCarry ->
               LET m1 == R(m0, a)
                   m2 == MVN(m1, G(d), G(a))
                   m3 == IF m.wantsCA
                         THEN ADCS(m2, G(d), G(d), WZR)
                         ELSE ADC(m2, G(d), G(d), WZR)
               IN  ComputeCarry(m3)
          [] m.carryFlag = ConstantTrue ->
               LET m1 == R(m0, a)
                   m2 == IF m.wantsCA
                         THEN NEGS(m1, G(d), G(a))
                         ELSE NEG(m1, G(d), G(a))
               IN  ComputeCarry(m2)
          [] m.carryFlag = ConstantFalse ->
               LET m1 == R(m0, a)
               IN  ComputeCarry_bool(MVN(m1, G(d), G(a)), FALSE)
  IN  IF m.bJITIntegerOff \/ inst.OE THEN FallBackToInterpreter(m)
      ELSE IF inst.Rc THEN ComputeRC0_reg(body, G(d))
      ELSE body

subfex(m, inst) ==
  LET a == inst.RA
      b == inst.RB
      d == inst.RD
      i == GetImm(m, a)
      j == GetImm(m, b)
      x == Add32(Not32(i), j, FALSE).v
      \* both operands constant: d = ~i + j + carry
      sum(p) ==
        CASE m.carryFlag = InPPCState ->
               Unlock(ADDI2R(LDRB_xer_ca(GetReg(p, "WA"), T("WA")), G(d), T("WA"), x), "WA")
          [] m.carryFlag = InHostCarry ->
               Unlock(ADC(MOVI2R(GetReg(p, "WA"), T("WA"), x), G(d), T("WA"), WZR), "WA")
          [] m.carryFlag = ConstantTrue -> SetImmediate(p, d, Add32(x, One, FALSE).v)
          [] m.carryFlag = ConstantFalse -> SetImmediate(p, d, x)
      must_have_carry == Helper_Carry(Not32(i), j)
      might_have_carry == x = AllOnes32
      carry(p) ==
        IF must_have_carry THEN ComputeCarry_bool(p, TRUE)
        ELSE IF might_have_carry THEN p   \* carry stays as it is
        ELSE ComputeCarry_bool(p, FALSE)
      \* WA = ~a
      notA(p) == IF IsImm(p, a)
                 THEN MOVI2R(p, T("WA"), Not32(GetImm(p, a)))
                 ELSE MVN(R(p, a), T("WA"), G(a))
      adc(p) == IF m.wantsCA
                THEN ADCS(p, G(d), T("WA"), G(b))
                ELSE ADC(p, G(d), T("WA"), G(b))
      sub(p) == IF m.wantsCA
                THEN SUBS(p, G(d), G(b), G(a))
                ELSE SUB(p, G(d), G(b), G(a))
      add(p) == IF m.wantsCA
                THEN ADDS(p, G(d), T("WA"), G(b))
                ELSE ADD(p, G(d), T("WA"), G(b))
      switch(p) ==
        CASE m.carryFlag = InPPCState ->
               \* upload the carry state, then as InHostCarry
               ComputeCarry(adc(R(notA(CMPI(LDRB_xer_ca(p, T("WA")), T("WA"), One)), b)))
          [] m.carryFlag = InHostCarry -> ComputeCarry(adc(R(notA(p), b)))
          [] m.carryFlag = ConstantTrue -> ComputeCarry(sub(R(R(p, b), a)))
          [] m.carryFlag = ConstantFalse -> ComputeCarry(add(R(notA(p), b)))
      unlock(p) == IF m.carryFlag # ConstantTrue THEN Unlock(p, "WA") ELSE p
      rc0(p) == IF inst.Rc THEN ComputeRC0_reg(R(p, d), G(d)) ELSE p
  IN  IF m.bJITIntegerOff \/ inst.OE THEN FallBackToInterpreter(m)
      ELSE IF IsImm(m, a) /\ IsImm(m, b)
      THEN rc0(carry(sum(BindToRegister(m, d, FALSE))))
      ELSE rc0(unlock(switch(BindToRegister(
                 IF m.carryFlag # ConstantTrue THEN GetReg(m, "WA") ELSE m,
                 d, d = a \/ d = b))))

\* the carry never taken to stay as it is
might_have_carry_Never(i, j) == FALSE
\* const bool might_have_carry = (i + j) == 0xFFFFFFFF
might_have_carry(i, j) == Add32(i, j, FALSE).v = AllOnes32
\* the immediate taken as it is
IncrementedImm_Same(imm) == Trunc32(imm)
\* const u32 imm = gpr.GetImm(b) + 1
IncrementedImm(imm) == Add32(imm, One, FALSE).v

addex(m, inst) ==
  LET a == inst.RA
      b == inst.RB
      d == inst.RD
      i == GetImm(m, a)
      j == GetImm(m, b)
      x == Add32(i, j, FALSE).v
      \* both operands constant: d = i + j + carry
      sum(p) ==
        CASE m.carryFlag = InPPCState ->
               Unlock(ADDI2R(LDRB_xer_ca(GetReg(p, "WA"), T("WA")), G(d), T("WA"), x), "WA")
          [] m.carryFlag = InHostCarry ->
               Unlock(ADC(MOVI2R(GetReg(p, "WA"), T("WA"), x), G(d), T("WA"), WZR), "WA")
          [] m.carryFlag = ConstantTrue -> SetImmediate(p, d, Add32(x, One, FALSE).v)
          [] m.carryFlag = ConstantFalse -> SetImmediate(p, d, x)
      must_have_carry == Helper_Carry(i, j)
      carry(p) ==
        IF must_have_carry THEN ComputeCarry_bool(p, TRUE)
        ELSE IF might_have_carry(i, j) THEN p   \* carry stays as it is
        ELSE ComputeCarry_bool(p, FALSE)
      \* a statically true carry with both operands in registers goes to the host flag
      toHost(p) ==
        IF p.carryFlag = ConstantTrue /\ ~IsImm(p, a) /\ ~IsImm(p, b)
        THEN SetCarryFlag(CMP(p, WZR, WZR), InHostCarry)
        ELSE p
      adc(p) == IF m.wantsCA
                THEN ADCS(p, G(d), G(a), G(b))
                ELSE ADC(p, G(d), G(a), G(b))
      add(p) == IF m.wantsCA
                THEN ADDS(p, G(d), G(a), G(b))
                ELSE ADD(p, G(d), G(a), G(b))
      \* d = ra + (rb + 1), rb constant; the ASSERT of the source is the fault bit
      addi(p, ra, imm) ==
        IF imm = Zero
        THEN ComputeCarry_bool(IF d # ra THEN MOV(R(p, ra), G(d), G(ra)) ELSE p, TRUE)
        ELSE ComputeCarry(IF m.wantsCA
                          THEN ADDSI2R(R(p, ra), G(d), G(ra), imm)
                          ELSE ADDI2R(R(p, ra), G(d), G(ra), imm))
      constTrue(p, ra, rb) ==
        Unlock(addi(GetReg(IF IsImm(p, rb) THEN p ELSE [p EXCEPT !.fault = TRUE], "WA"),
                    ra, IncrementedImm(GetImm(p, rb))),
               "WA")
      switch(p) ==
        CASE p.carryFlag = InPPCState ->
               \* upload the carry state, then as InHostCarry
               ComputeCarry(adc(R(R(
                 Unlock(CMPI(LDRB_xer_ca(GetReg(p, "WA"), T("WA")), T("WA"), One), "WA"),
                 a), b)))
          [] p.carryFlag = InHostCarry -> ComputeCarry(adc(R(R(p, a), b)))
          [] p.carryFlag = ConstantTrue ->
               IF ~IsImm(p, b) THEN constTrue(p, b, a) ELSE constTrue(p, a, b)
          [] p.carryFlag = ConstantFalse -> ComputeCarry(add(R(R(p, a), b)))
      rc0(p) == IF inst.Rc THEN ComputeRC0_reg(R(p, d), G(d)) ELSE p
  IN  IF m.bJITIntegerOff \/ inst.OE THEN FallBackToInterpreter(m)
      ELSE IF IsImm(m, a) /\ IsImm(m, b)
      THEN rc0(carry(sum(BindToRegister(m, d, FALSE))))
      ELSE rc0(switch(toHost(BindToRegister(m, d, d = a \/ d = b))))

\* the carry taken from the sign alone
ShiftedOutCarry_SignOnly(imm, amount) == 31 \in imm
\* amount != 0 && (imm < 0) && (u32(imm) << (32 - amount))
ShiftedOutCarry(imm, amount) ==
  amount # 0 /\ 31 \in imm /\ Lsl(imm, 32 - amount, 32) # Zero

srawix(m, inst) ==
  LET a == inst.RA
      s == inst.RS
      amount == inst.SH
      inplace_carry == m.canMerge /\ m.nextWantsCAInFlags
  IN  IF m.bJITIntegerOff THEN FallBackToInterpreter(m)
      ELSE IF IsImm(m, s)
      THEN LET imm == GetImm(m, s)
               m1 == SetImmediate(m, a, Asr(imm, amount, 32))
               m2 == ComputeCarry_bool(m1, ShiftedOutCarry(imm, amount))
           IN  IF inst.Rc THEN ComputeRC0_imm(m2, GetImm(m2, a)) ELSE m2
      ELSE IF amount = 0
      THEN LET m1 == R(BindToRegister(m, a, a = s), s)
               m2 == ComputeCarry_bool(MOV(m1, G(a), G(s)), FALSE)
           IN  IF inst.Rc THEN ComputeRC0_reg(m2, G(a)) ELSE m2
      ELSE LET m1 == R(BindToRegister(m, a, a = s), s)
               m2 ==
                 IF m.wantsCA
                 THEN LET p == GetReg(m1, "WA")
                          dest == IF inplace_carry THEN T("WA") ELSE WSP
                          q == IF a # s
                               THEN LET q1 == ASR(p, G(a), G(s), amount)
                                    IN  ANDS(q1, dest, G(a), G(s), 32 - amount)
                               ELSE LET q1 == LSL(p, T("WA"), G(s), 32 - amount)
                                        q2 == ASR(q1, G(a), G(s), amount)
                                    IN  ANDS(q2, dest, T("WA"), G(a), 0)
                          r == IF inplace_carry
                               THEN ComputeCarry(CMPI(q, dest, One))
                               ELSE LET r1 == CSINC(q, T("WA"), CC_EQ)
                                    IN  ComputeCarry_reg(r1, T("WA"))
                      IN  Unlock(r, "WA")
                 ELSE ASR(m1, G(a), G(s), amount)
           IN  IF inst.Rc THEN ComputeRC0_reg(m2, G(a)) ELSE m2

srawx(m, inst) ==
  LET a == inst.RA
      b == inst.RB
      s == inst.RS
      rc0(p) == IF inst.Rc THEN LET x == R(p, a) IN ComputeRC0_reg(x, G(a)) ELSE p
  IN  IF m.bJITIntegerOff THEN FallBackToInterpreter(m)
      ELSE IF IsImm(m, b) /\ IsImm(m, s)
      THEN LET i == GetImm(m, s)
               amt == GetImm(m, b)
               m1 == IF 5 \in amt
                     THEN ComputeCarry_bool(
                            SetImmediate(m, a, IF 31 \in i THEN AllOnes32 ELSE Zero),
                            31 \in i)
                     ELSE LET amount == Low6(amt) % 32
                          IN  ComputeCarry_bool(
                                SetImmediate(m, a, Asr(i, amount, 32)),
                                ShiftedOutCarry(i, amount))
           IN  IF inst.Rc THEN ComputeRC0_imm(m1, GetImm(m1, a)) ELSE m1
      ELSE IF IsImm(m, s) /\ GetImm(m, s) = Zero
      THEN LET m1 == ComputeCarry_bool(SetImmediate(m, a, Zero), FALSE)
           IN  IF inst.Rc THEN ComputeRC0_imm(m1, Zero) ELSE m1
      ELSE IF IsImm(m, b)
      THEN LET special == 5 \in GetImm(m, b)
               amount == Low6(GetImm(m, b)) % 32
           IN  IF special
               THEN LET m1 == BindToRegister(m, a, a = s)
                        m2 == IF m.wantsCA
                              THEN \* set the carry flag to the sign bit of s
                                   LET p == R(m1, s)
                                   IN  ComputeCarry(CMN(p, G(s), G(s)))
                              ELSE m1
                        m3 == R(m2, s)
                    IN  rc0(ASR(m3, G(a), G(s), 31))
               ELSE IF amount = 0
               THEN LET m1 == IF a # s
                              THEN LET p == R(BindToRegister(m, a, FALSE), s)
                                   IN  MOV(p, G(a), G(s))
                              ELSE m
                    IN  rc0(ComputeCarry_bool(m1, FALSE))
               ELSE IF ~m.wantsCA
               THEN LET m1 == R(BindToRegister(m, a, a = s), s)
                    IN  rc0(ASR(m1, G(a), G(s), amount))
               ELSE LET m1 == R(GetReg(BindToRegister(m, a, a = s), "WA"), s)
                        m2 == IF a # s
                              THEN LET p == ASR(m1, G(a), G(s), amount)
                                   IN  TST(p, G(a), G(s), 32 - amount)
                              ELSE LET p == LSL(m1, T("WA"), G(s), 32 - amount)
                                       q == ASR(p, G(a), G(s), amount)
                                   IN  TST(q, T("WA"), G(a), 0)
                        m3 == CSET(m2, T("WA"), CC_NEQ)
                    IN  rc0(Unlock(ComputeCarry_reg(m3, T("WA")), "WA"))
      ELSE LET m1 == R(R(GetReg(BindToRegister(m, a, a = b \/ a = s), "WA"), s), b)
               m2 == LSL64(m1, T("WA"), G(s), 32)
               m3 == ASRV64(m2, T("WA"), T("WA"), G(b))
               m4 == LSR64(m3, G(a), T("WA"), 32)
               m5 == IF m.wantsCA
                     THEN LET p == TST(m4, G(a), T("WA"), 0)
                              q == CSET(p, T("WA"), CC_NEQ)
                          IN  ComputeCarry_reg(q, T("WA"))
                     ELSE m4
           IN  rc0(Unlock(m5, "WA"))

cmp(m, inst) ==
  LET a == inst.RA
      b == inst.RB
      m0 == BindCRToRegister(m)
  IN  IF m.bJITIntegerOff THEN FallBackToInterpreter(m)
      ELSE IF IsImm(m0, a) /\ IsImm(m0, b)
      THEN LET A == SExt32(GetImm(m0, a))
               B == SExt32(GetImm(m0, b))
           IN  MOVI2R64(m0, CRX, Sub64(A, B).v)
      ELSE IF IsImm(m0, b) /\ GetImm(m0, b) = Zero
      THEN LET m1 == R(m0, a) IN SXTW(m1, CRX, G(a))
      ELSE LET m1 == R(R(GetReg(m0, "WA"), a), b)
               m2 == SXTW(m1, T("WA"), G(a))
               m3 == SXTW(m2, CRX, G(b))
               m4 == SUB64(m3, CRX, T("WA"), CRX)
           IN  Unlock(m4, "WA")

cmpl(m, inst) ==
  LET a == inst.RA
      b == inst.RB
      m0 == BindCRToRegister(m)
  IN  IF m.bJITIntegerOff THEN FallBackToInterpreter(m)
      ELSE IF IsImm(m0, a) /\ IsImm(m0, b)
      THEN LET A == GetImm(m0, a)
               B == GetImm(m0, b)
           IN  MOVI2R64(m0, CRX, Sub64(A, B).v)
      ELSE IF IsImm(m0, b) /\ GetImm(m0, b) = Zero
      THEN LET m1 == R(m0, a) IN MOV(m1, CRX, G(a))
      ELSE LET m1 == R(R(m0, a), b)
           IN  SUB64(m1, CRX, G(a), G(b))

\* cmpi moving the word into the field without sign extension
cmpi_MovesWord(m, inst) ==
  LET a == inst.RA
      B == SExt32(inst.SIMM_16)
      m0 == BindCRToRegister(m)
  IN  IF m.bJITIntegerOff THEN FallBackToInterpreter(m)
      ELSE IF IsImm(m0, a)
      THEN LET A == SExt32(GetImm(m0, a))
           IN  MOVI2R64(m0, CRX, Sub64(A, B).v)
      ELSE LET m1 == R(m0, a)
               m2 == MOV(m1, CRX, G(a))
           IN  IF B # Zero
               THEN LET m3 == GetReg(m2, "WA")
                    IN  Unlock(SUBI2R64(m3, CRX, CRX, B), "WA")
               ELSE m2

cmpi(m, inst) ==
  LET a == inst.RA
      B == SExt32(inst.SIMM_16)
      m0 == BindCRToRegister(m)
  IN  IF m.bJITIntegerOff THEN FallBackToInterpreter(m)
      ELSE IF IsImm(m0, a)
      THEN LET A == SExt32(GetImm(m0, a))
           IN  MOVI2R64(m0, CRX, Sub64(A, B).v)
      ELSE LET m1 == R(m0, a)
               m2 == SXTW(m1, CRX, G(a))
           IN  IF B # Zero
               THEN LET m3 == GetReg(m2, "WA")
                    IN  Unlock(SUBI2R64(m3, CRX, CRX, B), "WA")
               ELSE m2

cmpli(m, inst) ==
  LET a == inst.RA
      B == inst.UIMM
      m0 == BindCRToRegister(m)
  IN  IF m.bJITIntegerOff THEN FallBackToInterpreter(m)
      ELSE IF IsImm(m0, a)
      THEN LET A == GetImm(m0, a)
           IN  MOVI2R64(m0, CRX, Sub64(A, B).v)
      ELSE IF B = Zero
      THEN LET m1 == R(m0, a) IN MOV(m1, CRX, G(a))
      ELSE LET m1 == R(m0, a)
           IN  SUBI2R64(m1, CRX, G(a), B)

addx(m, inst) ==
  LET a == inst.RA
      b == inst.RB
      d == inst.RD
  IN  IF m.bJITIntegerOff \/ inst.OE THEN FallBackToInterpreter(m)
      ELSE IF IsImm(m, a) /\ IsImm(m, b)
      THEN LET m1 == SetImmediate(m, d, Add32(GetImm(m, a), GetImm(m, b), FALSE).v)
           IN  IF inst.Rc THEN ComputeRC0_imm(m1, GetImm(m1, d)) ELSE m1
      ELSE IF IsImm(m, a) \/ IsImm(m, b)
      THEN LET imm_reg == IF IsImm(m, a) THEN a ELSE b
               in_reg == IF IsImm(m, a) THEN b ELSE a
               imm == GetImm(m, imm_reg)
               m1 == R(GetReg(BindToRegister(m, d, d = in_reg), "WA"), in_reg)
               m2 == Unlock(ADDI2R(m1, G(d), G(in_reg), imm), "WA")
           IN  IF inst.Rc THEN ComputeRC0_reg(m2, G(d)) ELSE m2
      ELSE LET m1 == R(R(BindToRegister(m, d, d = a \/ d = b), a), b)
               m2 == ADD(m1, G(d), G(a), G(b))
           IN  IF inst.Rc THEN ComputeRC0_reg(m2, G(d)) ELSE m2

\* negx binding its destination ahead of the overflow-enable test
negx_BindsFirst(m, inst) ==
  LET a == inst.RA
      d == inst.RD
      m0 == BindToRegister(m, d, d = a)
  IN  IF m.bJITIntegerOff THEN FallBackToInterpreter(m)
      ELSE IF inst.OE THEN FallBackToInterpreter(m0)
      ELSE IF IsImm(m, a)
      THEN LET m1 == SetImmediate(m, d, Add32(Not32(GetImm(m, a)), One, FALSE).v)
           IN  IF inst.Rc THEN ComputeRC0_imm(m1, GetImm(m1, d)) ELSE m1
      ELSE LET m1 == R(m0, a)
               m2 == SUB(m1, G(d), WSP, G(a))
           IN  IF inst.Rc THEN ComputeRC0_reg(m2, G(d)) ELSE m2

negx(m, inst) ==
  LET a == inst.RA
      d == inst.RD
  IN  IF m.bJITIntegerOff \/ inst.OE THEN FallBackToInterpreter(m)
      ELSE IF IsImm(m, a)
      THEN LET m1 == SetImmediate(m, d, Add32(Not32(GetImm(m, a)), One, FALSE).v)
           IN  IF inst.Rc THEN ComputeRC0_imm(m1, GetImm(m1, d)) ELSE m1
      ELSE LET m1 == R(BindToRegister(m, d, d = a), a)
               m2 == SUB(m1, G(d), WSP, G(a))
           IN  IF inst.Rc THEN ComputeRC0_reg(m2, G(d)) ELSE m2

\* the overflowing division not taken as special
divwx_special_ZeroOnly(imm_a, imm_b) == imm_b = Zero
\* imm_b == 0 || (static_cast<u32>(imm_a) == 0x80000000 && imm_b == -1)
divwx_special(imm_a, imm_b) ==
  imm_b = Zero \/ (imm_a = SignBit32 /\ imm_b = AllOnes32)

divwx(m, inst) ==
  LET a == inst.RA
      b == inst.RB
      d == inst.RD
  IN  IF m.bJITIntegerOff \/ inst.OE THEN FallBackToInterpreter(m)
      ELSE IF IsImm(m, a) /\ IsImm(m, b)
      THEN LET imm_a == GetImm(m, a)
               imm_b == GetImm(m, b)
               imm_d == IF divwx_special(imm_a, imm_b)
                        THEN (IF 31 \in imm_a THEN AllOnes32 ELSE Zero)
                        ELSE SDiv32(imm_a, imm_b)
               m1 == SetImmediate(m, d, imm_d)
           IN  IF inst.Rc THEN ComputeRC0_imm(m1, imm_d) ELSE m1
      ELSE IF IsImm(m, b) /\ GetImm(m, b) # Zero /\ GetImm(m, b) # AllOnes32
      THEN LET m1 == MOVI2R(GetReg(m, "WA"), T("WA"), GetImm(m, b))
               m2 == R(BindToRegister(m1, d, d = a), a)
               m3 == Unlock(SDIV(m2, G(d), G(a), T("WA")), "WA")
           IN  IF inst.Rc THEN ComputeRC0_reg(m3, G(d)) ELSE m3
      ELSE LET RA == G(a)
               RB == G(b)
               RD == G(d)
               \* after CMP and CCMN: B.EQ slow2, else SDIV
               divide(p) ==
                 IF Cond(p, CC_EQ)
                 THEN ASR(EmitAll(p, <<"B.EQ", "SDIV", "B">>), RD, RA, 31)
                 ELSE Emit(Emit(SDIV(Emit(p, "B.EQ"), RD, RA, RB), "B"), "ASR")
               \* CBZ RB, slow1
               run(p) ==
                 IF Rd(p, RB) = Zero
                 THEN ASR(EmitAll(p, <<"CBZ", "MOVI2R", "CMP", "CCMN", "B.EQ", "SDIV", "B">>),
                          RD, RA, 31)
                 ELSE divide(CCMN(CMP(MOVI2R(Emit(p, "CBZ"), T("WA"), SignBit32),
                                      RA, T("WA")),
                                  RB, One, CC_EQ))
               rc0(p) == IF inst.Rc THEN ComputeRC0_reg(p, RD) ELSE p
           IN  rc0(Unlock(run(R(R(GetReg(BindToRegister(FlushCarry(m), d, d = a \/ d = b),
                                         "WA"), a), b)), "WA"))

mullwx(m, inst) ==
  LET a == inst.RA
      b == inst.RB
      d == inst.RD
  IN  IF m.bJITIntegerOff \/ inst.OE THEN FallBackToInterpreter(m)
      ELSE IF IsImm(m, a) /\ IsImm(m, b)
      THEN LET m1 == SetImmediate(m, d, Mul32(GetImm(m, a), GetImm(m, b)))
           IN  IF inst.Rc THEN ComputeRC0_imm(m1, GetImm(m1, d)) ELSE m1
      ELSE LET m1 == R(R(BindToRegister(m, d, d = a \/ d = b), a), b)
               m2 == MUL(m1, G(d), G(a), G(b))
           IN  IF inst.Rc THEN ComputeRC0_reg(m2, G(d)) ELSE m2

\* mulhwx that leaves the whole 64-bit product in the destination
mulhwx_NoShift(m, inst) ==
  LET a == inst.RA
      b == inst.RB
      d == inst.RD
      i == GetImm(m, a)
      j == GetImm(m, b)
  IN  IF m.bJITIntegerOff THEN FallBackToInterpreter(m)
      ELSE IF IsImm(m, a) /\ IsImm(m, b)
      THEN LET m1 == SetImmediate(m, d, Trunc32(Lsr(SMul64(i, j), 32)))
           IN  IF inst.Rc THEN ComputeRC0_imm(m1, GetImm(m1, d)) ELSE m1
      ELSE LET m1 == R(R(BindToRegister(m, d, d = a \/ d = b), a), b)
               m2 == SMULL(m1, G(d), G(a), G(b))
           IN  IF inst.Rc THEN ComputeRC0_reg(m2, G(d)) ELSE m2

mulhwx(m, inst) ==
  LET a == inst.RA
      b == inst.RB
      d == inst.RD
      i == GetImm(m, a)
      j == GetImm(m, b)
  IN  IF m.bJITIntegerOff THEN FallBackToInterpreter(m)
      ELSE IF IsImm(m, a) /\ IsImm(m, b)
      THEN LET m1 == SetImmediate(m, d, Trunc32(Lsr(SMul64(i, j), 32)))
           IN  IF inst.Rc THEN ComputeRC0_imm(m1, GetImm(m1, d)) ELSE m1
      ELSE LET m1 == R(R(BindToRegister(m, d, d = a \/ d = b), a), b)
               m2 == SMULL(m1, G(d), G(a), G(b))
               m3 == LSR64(m2, G(d), G(d), 32)
           IN  IF inst.Rc THEN ComputeRC0_reg(m3, G(d)) ELSE m3

mulhwux(m, inst) ==
  LET a == inst.RA
      b == inst.RB
      d == inst.RD
      i == GetImm(m, a)
      j == GetImm(m, b)
  IN  IF m.bJITIntegerOff THEN FallBackToInterpreter(m)
      ELSE IF IsImm(m, a) /\ IsImm(m, b)
      THEN LET m1 == SetImmediate(m, d, Trunc32(Lsr(UMul64(i, j), 32)))
           IN  IF inst.Rc THEN ComputeRC0_imm(m1, GetImm(m1, d)) ELSE m1
      ELSE LET m1 == R(R(BindToRegister(m, d, d = a \/ d = b), a), b)
               m2 == UMULL(m1, G(d), G(a), G(b))
               m3 == LSR64(m2, G(d), G(d), 32)
           IN  IF inst.Rc THEN ComputeRC0_reg(m3, G(d)) ELSE m3

subfx(m, inst) ==
  LET a == inst.RA
      b == inst.RB
      d == inst.RD
  IN  IF m.bJITIntegerOff \/ inst.OE THEN FallBackToInterpreter(m)
      ELSE IF a = b
      THEN LET m1 == SetImmediate(m, d, Zero)
           IN  IF inst.Rc THEN ComputeRC0_imm(m1, GetImm(m1, d)) ELSE m1
      ELSE IF IsImm(m, a) /\ IsImm(m, b)
      THEN LET m1 == SetImmediate(m, d, Sub32(GetImm(m, b), GetImm(m, a)).v)
           IN  IF inst.Rc THEN ComputeRC0_imm(m1, GetImm(m1, d)) ELSE m1
      ELSE LET m1 == R(R(BindToRegister(m, d, d = a \/ d = b), b), a)
               m2 == SUB(m1, G(d), G(b), G(a))
           IN  IF inst.Rc THEN ComputeRC0_reg(m2, G(d)) ELSE m2

divwux(m, inst) ==
  LET a == inst.RA
      b == inst.RB
      d == inst.RD
  IN  IF m.bJITIntegerOff \/ inst.OE THEN FallBackToInterpreter(m)
      ELSE IF IsImm(m, a) /\ IsImm(m, b)
      THEN LET m1 == SetImmediate(m, d, UDiv32(GetImm(m, a), GetImm(m, b)))
           IN  IF inst.Rc THEN ComputeRC0_imm(m1, GetImm(m1, d)) ELSE m1
      ELSE LET m1 == R(R(BindToRegister(m, d, d = a \/ d = b), a), b)
               \* d = a / b
               m2 == UDIV(m1, G(d), G(a), G(b))
           IN  IF inst.Rc THEN ComputeRC0_reg(m2, G(d)) ELSE m2

\* the register path of slwx without the final 32-bit move
slwx_KeepsTopBits(m, inst) ==
  LET a == inst.RA
      b == inst.RB
      s == inst.RS
  IN  IF m.bJITIntegerOff THEN FallBackToInterpreter(m)
      ELSE IF IsImm(m, b) /\ IsImm(m, s)
      THEN LET i == GetImm(m, s)
               j == GetImm(m, b)
               m1 == SetImmediate(m, a, IF 5 \in j THEN Zero ELSE Lsl(i, Low6(j) % 32, 32))
           IN  IF inst.Rc THEN ComputeRC0_imm(m1, GetImm(m1, a)) ELSE m1
      ELSE IF IsImm(m, s) /\ GetImm(m, s) = Zero
      THEN LET m1 == SetImmediate(m, a, Zero)
           IN  IF inst.Rc THEN ComputeRC0_imm(m1, Zero) ELSE m1
      ELSE IF IsImm(m, b)
      THEN LET i == GetImm(m, b)
           IN  IF 5 \in i
               THEN LET m1 == SetImmediate(m, a, Zero)
                    IN  IF inst.Rc THEN ComputeRC0_imm(m1, Zero) ELSE m1
               ELSE LET m1 == R(BindToRegister(m, a, a = s), s)
                        m2 == LSL(m1, G(a), G(s), Low6(i) % 32)
                    IN  IF inst.Rc THEN ComputeRC0_reg(m2, G(a)) ELSE m2
      ELSE LET m1 == R(R(BindToRegister(m, a, a = b \/ a = s), s), b)
               m2 == LSLV64(m1, G(a), G(s), G(b))
           IN  IF inst.Rc THEN ComputeRC0_reg(m2, G(a)) ELSE m2

\* the amount taken modulo 32
slwx_fold_Mod32(i, j) == Lsl(i, Low6(j) % 32, 32)
\* (j & 0x20) ? 0 : i << (j & 0x1F)
slwx_fold(i, j) == IF 5 \in j THEN Zero ELSE Lsl(i, Low6(j) % 32, 32)

slwx(m, inst) ==
  LET a == inst.RA
      b == inst.RB
      s == inst.RS
  IN  IF m.bJITIntegerOff THEN FallBackToInterpreter(m)
      ELSE IF IsImm(m, b) /\ IsImm(m, s)
      THEN LET i == GetImm(m, s)
               j == GetImm(m, b)
               m1 == SetImmediate(m, a, slwx_fold(i, j))
           IN  IF inst.Rc THEN ComputeRC0_imm(m1, GetImm(m1, a)) ELSE m1
      ELSE IF IsImm(m, s) /\ GetImm(m, s) = Zero
      THEN LET m1 == SetImmediate(m, a, Zero)
           IN  IF inst.Rc THEN ComputeRC0_imm(m1, Zero) ELSE m1
      ELSE IF IsImm(m, b)
      THEN LET i == GetImm(m, b)
           IN  IF 5 \in i
               THEN LET m1 == SetImmediate(m, a, Zero)
                    IN  IF inst.Rc THEN ComputeRC0_imm(m1, Zero) ELSE m1
               ELSE LET m1 == R(BindToRegister(m, a, a = s), s)
                        m2 == LSL(m1, G(a), G(s), Low6(i) % 32)
                    IN  IF inst.Rc THEN ComputeRC0_reg(m2, G(a)) ELSE m2
      ELSE LET m1 == R(R(BindToRegister(m, a, a = b \/ a = s), s), b)
               \* a 64-bit shift, so that amounts 32..63 give 0 in the low word;
               \* the 32-bit MOV then discards the top 32 bits
               m2 == LSLV64(m1, G(a), G(s), G(b))
               m3 == IF inst.Rc THEN ComputeRC0_reg(m2, G(a)) ELSE m2
           IN  MOV(m3, G(a), G(a))

srwx(m, inst) ==
  LET a == inst.RA
      b == inst.RB
      s == inst.RS
  IN  IF m.bJITIntegerOff THEN FallBackToInterpreter(m)
      ELSE IF IsImm(m, b) /\ IsImm(m, s)
      THEN LET i == GetImm(m, s)
               amount == GetImm(m, b)
               m1 == SetImmediate(m, a, IF 5 \in amount THEN Zero
                                        ELSE Lsr(i, Low6(amount) % 32))
           IN  IF inst.Rc THEN ComputeRC0_imm(m1, GetImm(m1, a)) ELSE m1
      ELSE IF IsImm(m, b)
      THEN LET amount == GetImm(m, b)
           IN  IF 5 \in amount
               THEN LET m1 == SetImmediate(m, a, Zero)
                    IN  IF inst.Rc THEN ComputeRC0_imm(m1, Zero) ELSE m1
               ELSE LET m1 == R(BindToRegister(m, a, a = s), s)
                        m2 == LSR(m1, G(a), G(s), Low6(amount) % 32)
                    IN  IF inst.Rc THEN ComputeRC0_reg(m2, G(a)) ELSE m2
      ELSE LET m1 == R(R(BindToRegister(m, a, a = b \/ a = s), s), b)
               m2 == LSRV64(m1, G(a), G(s), G(b))
           IN  IF inst.Rc THEN ComputeRC0_reg(m2, G(a)) ELSE m2

\* the generic form of rlwinmx: the mask in a temporary, AND with rS rotated
rlwinmx_rotate(m, a, s, SH, mask) ==
  Unlock(AND_ROR(MOVI2R(GetReg(m, "WA"), T("WA"), mask), G(a), T("WA"), G(s), 32 - SH),
         "WA")

\* rlwinmx selecting the upper part from the wrong end
rlwinmx_SelectsFromSH(m, inst) ==
  LET a == inst.RA
      s == inst.RS
      mask == MakeRotationMask(inst.MB, inst.ME)
      rc0(p) == IF inst.Rc THEN ComputeRC0_reg(p, G(a)) ELSE p
      run(p) ==
        IF inst.SH = 0 /\ mask = AllOnes32
        THEN IF a # s THEN MOV(p, G(a), G(s)) ELSE p
        ELSE IF inst.SH = 0
        THEN ANDI2R(p, G(a), G(s), mask)
        ELSE IF inst.ME = 31 /\ 31 < inst.SH + inst.MB
        THEN UBFX(p, G(a), G(s), inst.SH, 32 - inst.MB)
        ELSE IF inst.ME = 31 - inst.SH /\ 32 > inst.SH + inst.MB
        THEN UBFIZ(p, G(a), G(s), inst.SH, 32 - inst.SH - inst.MB)
        ELSE rlwinmx_rotate(p, a, s, inst.SH, mask)
  IN  IF m.bJITIntegerOff THEN FallBackToInterpreter(m)
      ELSE IF IsImm(m, s)
      THEN LET m1 == SetImmediate(m, a, RotateLeft(GetImm(m, s), inst.SH) \cap mask)
           IN  IF inst.Rc THEN ComputeRC0_imm(m1, GetImm(m1, a)) ELSE m1
      ELSE rc0(run(R(BindToRegister(m, a, a = s), s)))

rlwinmx(m, inst) ==
  LET a == inst.RA
      s == inst.RS
      mask == MakeRotationMask(inst.MB, inst.ME)
      rc0(p) == IF inst.Rc THEN ComputeRC0_reg(p, G(a)) ELSE p
      run(p) ==
        IF inst.SH = 0 /\ mask = AllOnes32
        THEN IF a # s THEN MOV(p, G(a), G(s)) ELSE p
        ELSE IF inst.SH = 0
        THEN ANDI2R(p, G(a), G(s), mask)
        ELSE IF inst.ME = 31 /\ 31 < inst.SH + inst.MB
        THEN UBFX(p, G(a), G(s), 32 - inst.SH, 32 - inst.MB)
        ELSE IF inst.ME = 31 - inst.SH /\ 32 > inst.SH + inst.MB
        THEN UBFIZ(p, G(a), G(s), inst.SH, 32 - inst.SH - inst.MB)
        ELSE rlwinmx_rotate(p, a, s, inst.SH, mask)
  IN  IF m.bJITIntegerOff THEN FallBackToInterpreter(m)
      ELSE IF IsImm(m, s)
      THEN LET m1 == SetImmediate(m, a, RotateLeft(GetImm(m, s), inst.SH) \cap mask)
           IN  IF inst.Rc THEN ComputeRC0_imm(m1, GetImm(m1, a)) ELSE m1
      ELSE rc0(run(R(BindToRegister(m, a, a = s), s)))

\* the field rotated left instead of right
rot_dist_Left(SH) == SH
\* const u32 rot_dist = inst.SH ? 32 - inst.SH : 0
rot_dist(SH) == IF SH # 0 THEN 32 - SH ELSE 0

rlwimix(m, inst) ==
  LET a == inst.RA
      s == inst.RS
      mask == MakeRotationMask(inst.MB, inst.ME)
      lsb == 31 - inst.ME
      width == inst.ME - inst.MB + 1
      rd == rot_dist(inst.SH)
      rc0(p) == IF inst.Rc THEN ComputeRC0_reg(R(p, a), G(a)) ELSE p
      full(p) ==
        IF inst.SH # 0 THEN ROR(R(p, s), G(a), G(s), rd)
        ELSE IF a # s THEN MOV(R(p, s), G(a), G(s))
        ELSE p
      viaTemp(p) == Unlock(BFI(UBFX(R(p, s), T("WA"), G(s), lsb, width),
                               G(a), T("WA"), lsb, width), "WA")
      rotated(p) == Unlock(BFI(ROR(R(p, s), T("WA"), G(s), (rd + lsb) % 32),
                               G(a), T("WA"), lsb, width), "WA")
      generic(p) ==
        Unlock(Unlock(ORR(AND_ROR(BIC(MOVI2R(R(p, s), T("WA"), mask),
                                      T("WB"), G(a), T("WA")),
                                  T("WA"), T("WA"), G(s), rd),
                          G(a), T("WB"), T("WA")), "WA"), "WB")
      run(p) ==
        IF mask = Zero \/ (a = s /\ inst.SH = 0) THEN p   \* do nothing
        ELSE IF mask = AllOnes32
        THEN full(IF inst.SH # 0 \/ a # s THEN BindToRegister(p, a, a = s) ELSE p)
        ELSE IF lsb = 0 /\ inst.MB <= inst.ME /\ rd + width <= 32
        THEN BFXIL(R(BindToRegister(p, a, TRUE), s), G(a), G(s), rd, width)
        ELSE IF inst.SH = 0 /\ inst.MB <= inst.ME
        THEN viaTemp(GetReg(BindToRegister(p, a, TRUE), "WA"))
        ELSE IF inst.SH # 0 /\ inst.MB <= inst.ME
        THEN IF (rd + lsb) % 32 = 0
             THEN BFI(R(BindToRegister(p, a, TRUE), s), G(a), G(s), lsb, width)
             ELSE rotated(GetReg(BindToRegister(p, a, TRUE), "WA"))
        ELSE generic(GetReg(GetReg(BindToRegister(p, a, TRUE), "WA"), "WB"))
  IN  IF m.bJITIntegerOff THEN FallBackToInterpreter(m)
      ELSE IF IsImm(m, a) /\ IsImm(m, s)
      THEN LET res == (GetImm(m, a) \ mask) \cup (RotateLeft(GetImm(m, s), inst.SH) \cap mask)
               m1 == SetImmediate(m, a, res)
           IN  IF inst.Rc THEN ComputeRC0_imm(m1, res) ELSE m1
      ELSE rc0(run(m))

\* ------------------------------------------- floating-point translators
(* The floating-point data path is outside the model: a guest FPR slot      *)
(* records whether it is bound to a host register and whether it holds      *)
(* single-precision data, and the translators record the allocator calls    *)
(* and the host instructions they emit, in source order.                    *)
FTemps == {"V0", "V1", "Q0"}
CallerSaved == {"W0", "W1", "W2", "W3", "W4", "W30"}

\* fpr.IsSingle(i)
IsSingle(m, i) == m.fpr[i].single
\* fpr.R(i, type): bind for reading; a single read as a double is converted
fprR(m, i, single) ==
  LET s == m.fpr[i]
      m1 == IF s.t = "Reg" THEN m ELSE Emit(m, "LDR fpr")
      m2 == IF s.single /\ ~single THEN Emit(m1, "FCVT") ELSE m1
  IN  [m2 EXCEPT !.fpr[i] = [t |-> "Reg", single |-> s.single /\ single]]
\* fpr.RW(i, type): bind for writing
fprRW(m, i, single) == [m EXCEPT !.fpr[i] = [t |-> "Reg", single |-> single]]
\* fpr.FixSinglePrecision(i)
FixSinglePrecision(m, i) ==
  IF m.fpr[i].single THEN m
  ELSE [Emit(m, "FCVT") EXCEPT !.fpr[i].single = TRUE]
\* gpr.Lock / fpr.Lock / fpr.GetReg and their Unlock on named host registers
LockRegs(m, regs) == [m EXCEPT !.locked = @ \cup regs]
UnlockRegs(m, regs) == [m EXCEPT !.locked = @ \ regs]

SetFPRFIfNeeded(m, single, vector) ==
  IF ~m.bFPRF \/ ~m.wantsFPRF THEN m
  ELSE LET m1 == LockRegs(m, CallerSaved)
           m2 == IF vector THEN Emit(m1, "FMOV") ELSE m1
       IN  UnlockRegs(Emit(m2, "BL"), CallerSaved)

\* ---- vector instructions on one 64-bit lane
\* MOVI / ORR with an 8-bit immediate shifted into every 32-bit element
MOVI_32(imm8, shift) ==
  LET w == Lsl(imm8, shift, 32) IN w \cup {i + 32 : i \in w}
MOVI_64(imm) == imm
ORR_32(x, imm8, shift) == x \cup MOVI_32(imm8, shift)
BIC_v(x, y) == x \ y
AND_v(x, y) == x \cap y
ADD_64(x, y) == Add64(x, y, FALSE).v

\* Force25BitPrecision rounding to bit 28 only, without bit 27 in the mask
Force25Lane_RoundsOnce(input) ==
  LET temp1 == MOVI_32({3}, 24)
      output1 == MOVI_64(32..63)
      temp2 == BIC_v(temp1, output1)
      output2 == ORR_32(output1, 4..7, 24)
  IN  [round |-> temp2, mask |-> output2, temp |-> AND_v(input, temp2),
       output |-> ADD_64(AND_v(input, output2), AND_v(input, temp2))]

\* the values Force25BitPrecision leaves in one 64-bit lane: the two constants
\* it builds (0x08 << 24 and 0xF8 << 24 are the immediates {3} and 3..7), temp
\* and output
Force25Lane(input) ==
  LET temp1 == MOVI_32({3}, 24)
      output1 == MOVI_64(32..63)
      temp2 == BIC_v(temp1, output1)
      output2 == ORR_32(output1, 3..7, 24)
  IN  [round |-> temp2, mask |-> output2, temp |-> AND_v(input, temp2),
       output |-> ADD_64(AND_v(input, output2), AND_v(input, temp2))]

\* input is the guest register whose host register is read; a D register has
\* one lane, a Q register two
Force25BitPrecision(m, output, input, temp, quad) ==
  LET lo == Force25Lane(m.fval[input][1])
      hi == Force25Lane(m.fval[input][2])
      p == EmitAll(m, <<"MOVI", "MOVI", "BIC", "ORR", "AND", "AND", "ADD">>)
  IN  [p EXCEPT !.vreg[temp] = <<lo.temp, IF quad THEN hi.temp ELSE Zero>>,
                !.vreg[output] = <<lo.output, IF quad THEN hi.output ELSE Zero>>]

\* round_c decided from the allocator's view of C instead of the hint
round_c_ByAllocator(m, inst) ==
  inst.SUBOP5 >= 25 /\ (inst.OPCD = 59 \/ inst.OPCD = 4) /\ ~IsSingle(m, inst.FC)

\* use_c && outputs_are_singles && !js.op->fprIsSingle[inst.FC]
round_c(m, inst) ==
  inst.SUBOP5 >= 25 /\ (inst.OPCD = 59 \/ inst.OPCD = 4) /\ ~m.fprIsSingle[inst.FC]

fp_arith(m, inst) ==
  LET a == inst.FA
      b == inst.FB
      c == inst.FC
      d == inst.FD
      op5 == inst.SUBOP5
      single == inst.OPCD = 59
      packed == inst.OPCD = 4
      use_c == op5 >= 25
      use_b == op5 # 25
      outputs_are_singles == single \/ packed
      inputs_are_singles == IsSingle(m, a) /\ (~use_b \/ IsSingle(m, b))
                                           /\ (~use_c \/ IsSingle(m, c))
      type == IF packed THEN inputs_are_singles ELSE inputs_are_singles /\ single
      type_out == IF packed THEN inputs_are_singles ELSE single /\ inputs_are_singles
      m1 == fprR(m, a, type)
      m2 == IF use_b THEN fprR(m1, b, type) ELSE m1
      m3 == IF use_c THEN fprR(m2, c, type) ELSE m2
      m4 == fprRW(m3, d, type_out)
      \* ASSERT "Tried to apply 25-bit precision to single" is the fault bit
      m5 == IF round_c(m, inst)
            THEN UnlockRegs(Force25BitPrecision(
                              LockRegs(IF inputs_are_singles
                                       THEN [m4 EXCEPT !.fault = TRUE] ELSE m4,
                                       {"V0", "V1"}),
                              "V0", c, "V1", packed /\ ~inputs_are_singles), {"V1"})
            ELSE m4
      m6 == CASE op5 = 18 -> Emit(m5, "FDIV")
              [] op5 = 20 -> Emit(m5, "FSUB")
              [] op5 = 21 -> Emit(m5, "FADD")
              [] op5 = 25 -> Emit(m5, "FMUL")
              [] op5 = 28 /\ ~packed -> Emit(m5, "FNMSUB")
              [] op5 = 29 /\ ~packed -> Emit(m5, "FMADD")
              [] op5 = 30 /\ ~packed -> Emit(m5, "FMSUB")
              [] op5 = 31 /\ ~packed -> Emit(m5, "FNMADD")
              [] OTHER -> m5
      m7 == IF round_c(m, inst) THEN UnlockRegs(m6, {"V0"}) ELSE m6
      m8 == IF outputs_are_singles THEN FixSinglePrecision(m7, d) ELSE m7
  IN  IF m.bJITFloatingPointOff \/ inst.Rc THEN FallBackToInterpreter(m)
      ELSE SetFPRFIfNeeded(m8, outputs_are_singles, TRUE)

fp_logic(m, inst) ==
  LET b == inst.FB
      d == inst.FD
      op10 == inst.SUBOP10
      single == IsSingle(m, b)
      m1 == fprRW(fprR(m, b, single), d, single)
  IN  IF m.bJITFloatingPointOff \/ inst.Rc THEN FallBackToInterpreter(m)
      \* MR with source === dest => no-op
      ELSE IF op10 = 72 /\ b = d THEN m
      ELSE CASE op10 = 40 -> Emit(m1, "FNEG")
             [] op10 = 72 -> Emit(m1, IF inst.OPCD = 4 THEN "ORR" ELSE "INS")
             [] op10 = 136 -> Emit(Emit(m1, "FABS"), "FNEG")
             [] op10 = 264 -> Emit(m1, "FABS")
             [] OTHER -> m1

fselx(m, inst) ==
  LET a == inst.FA
      b == inst.FB
      c == inst.FC
      d == inst.FD
      b_and_c_singles == IsSingle(m, b) /\ IsSingle(m, c)
      a_single == IsSingle(m, a) /\ (b_and_c_singles \/ (a # b /\ a # c))
      m1 == fprR(fprR(fprR(m, a, a_single), b, b_and_c_singles), c, b_and_c_singles)
      m2 == fprRW(m1, d, b_and_c_singles)
  IN  IF m.bJITFloatingPointOff \/ inst.Rc THEN FallBackToInterpreter(m)
      ELSE Emit(Emit(m2, "FCMPE"), "FCSEL")

frspx(m, inst) ==
  LET b == inst.FB
      d == inst.FD
      single == IsSingle(m, b)
  IN  IF m.bJITFloatingPointOff \/ inst.Rc THEN FallBackToInterpreter(m)
      ELSE IF single /\ m.fpr_is_store_safe
      THEN \* already in single precision: only copy to PSR1
           LET m1 == fprRW(fprR(m, b, TRUE), d, TRUE)
               m2 == IF b # d THEN Emit(m1, "FMOV") ELSE m1
           IN  SetFPRFIfNeeded(m2, TRUE, TRUE)
      ELSE LET m1 == fprRW(fprR(m, b, FALSE), d, TRUE)
           IN  SetFPRFIfNeeded(Emit(m1, "FCVT"), TRUE, TRUE)

fctiwzx(m, inst) ==
  LET b == inst.FB
      d == inst.FD
      single == IsSingle(m, b)
      m1 == LockRegs(fprRW(fprR(m, b, single), d, FALSE), {"V0"})
      \* generate 0xFFF8000000000000
      m2 == EmitAll(m1, <<"MOVI", "BIC">>)
      m3 == IF single THEN Emit(m2, "FCVTS")
            ELSE Unlock(EmitAll(GetReg(m2, "WA"), <<"FCVTS", "FMOV">>), "WA")
  IN  IF m.bJITFloatingPointOff \/ inst.Rc THEN FallBackToInterpreter(m)
      ELSE UnlockRegs(Emit(m3, "ORR"), {"V0"})

fresx(m, inst) ==
  LET b == inst.FB
      d == inst.FD
      m1 == fprR(LockRegs(m, CallerSaved \cup {"Q0"}), b, FALSE)
      m2 == EmitAll(m1, <<"FMOV", "FRECPE", "BL">>)
      m3 == fprRW(UnlockRegs(m2, CallerSaved \cup {"Q0"}), d, FALSE)
  IN  IF m.bJITFloatingPointOff \/ inst.Rc THEN FallBackToInterpreter(m)
      ELSE SetFPRFIfNeeded(Emit(m3, "FMOV"), FALSE, FALSE)

frsqrtex(m, inst) ==
  LET b == inst.FB
      d == inst.FD
      m1 == fprR(LockRegs(m, CallerSaved \cup {"Q0"}), b, FALSE)
      m2 == EmitAll(m1, <<"FMOV", "FRSQRTE", "BL">>)
      m3 == fprRW(UnlockRegs(m2, CallerSaved \cup {"Q0"}), d, FALSE)
  IN  IF m.bJITFloatingPointOff \/ inst.Rc THEN FallBackToInterpreter(m)
      ELSE SetFPRFIfNeeded(Emit(m3, "FMOV"), FALSE, FALSE)

\* ------------------------------------------------------- the block compiler
Producers == {"addcx", "addic", "subfcx", "subfic", "addex", "subfex",
              "addzex", "subfzex", "srawx", "srawix"}
Consumers == {"addex", "subfex", "addzex", "subfzex"}

\* ------------------------------------------- bit-exact float conversions
\* fields of the single and double formats
Exp32(x) == ToNat(Lsr(x, 23), 7)
Frac32(x) == x \cap (0..22)
Exp64(x) == ToNat(Lsr(x, 52), 10)
Frac64(x) == x \cap (0..51)
IsNaN32(x) == Exp32(x) = 255 /\ Frac32(x) # {}
IsNaN64(x) == Exp64(x) = 2047 /\ Frac64(x) # {}
IsDenormal32(x) == Exp32(x) = 0 /\ Frac32(x) # {}
TopBit(x) == CHOOSE h \in x : \A k \in x : k <= h

RECURSIVE Normalize(_, _)
\* do { frac <<= 1; exp -= 1; } while ((frac & 0x00800000) == 0)
Normalize(frac, exp) ==
  LET f == Lsl(frac, 1, 32)
  IN  IF 23 \in f THEN <<f, exp - 1>> ELSE Normalize(f, exp - 1)

\* the reference routine behind cstd (ConvertToDouble)
ConvertToDouble(value) ==
  LET x == Trunc32(value)
      exp == Exp32(x)
      frac == Frac32(x)
      z(y) == IF y THEN {59, 60, 61} ELSE {}
      copy(y) == Lsl(x \cap {30, 31}, 32, 64) \cup z(y) \cup Lsl(x \cap (0..29), 29, 64)
      norm(n) == Lsl(x \cap {31}, 32, 64) \cup Lsl(FromNat(n[2]), 52, 64)
                   \cup Lsl(n[1] \cap (0..22), 29, 64)
  IN  IF exp > 0 /\ exp < 255 THEN copy(30 \notin x)
      ELSE IF exp = 0 /\ frac # {} THEN norm(Normalize(frac, 1023 - 126))
      ELSE copy(30 \in x)

\* the reference routine behind cdts (ConvertToSingle)
ConvertToSingle(x) ==
  LET exp == Exp64(x)
      copy == (Lsr(x, 32) \cap {30, 31}) \cup (Lsr(x, 29) \cap (0..29))
      t == {31} \cup Lsr(Frac64(x), 21)
  IN  IF exp > 896 \/ x \cap (0..62) = {} THEN copy
      ELSE IF exp >= 874 THEN Lsr(t, 905 - exp) \cup (Lsr(x, 32) \cap {31})
      ELSE copy

\* FCVT single -> double under FPCR.FZ = fz: NaNs are quieted, denormal
\* inputs are flushed when fz
FCVT_64_32(x, fz) ==
  LET sign == Lsl(x \cap {31}, 32, 64)
      exp == Exp32(x)
      frac == Frac32(x)
      h == TopBit(frac)
  IN  IF exp = 255 /\ frac # {} THEN sign \cup (51..62) \cup Lsl(frac, 29, 64)
      ELSE IF exp = 255 THEN sign \cup (52..62)
      ELSE IF exp = 0 /\ frac = {} THEN sign
      ELSE IF exp = 0
      THEN IF fz THEN sign
           ELSE sign \cup Lsl(FromNat(h + 874), 52, 64) \cup Lsl(frac \ {h}, 52 - h, 64)
      ELSE sign \cup Lsl(FromNat(exp + 896), 52, 64) \cup Lsl(frac, 29, 64)

\* FCVT double -> single, round to nearest even, under FPCR.FZ = fz
FCVT_32_64(x, fz) ==
  LET sign == Lsr(x \cap {63}, 32)
      exp == Exp64(x)
      frac == Frac64(x)
      e == exp - 896
      sig == frac \cup {52}
      s == IF e >= 1 THEN 29 ELSE 30 - e
      kept == Lsr(sig, s)
      inc == (s - 1) \in sig /\ (sig \cap (0..(s - 2)) # {} \/ 0 \in kept)
      base == IF e >= 1 THEN Lsl(FromNat(e - 1), 23, 32) ELSE Zero
  IN  IF exp = 2047 /\ frac # {} THEN sign \cup (22..30) \cup Lsr(frac, 29)
      ELSE IF exp = 2047 \/ e >= 255 THEN sign \cup (23..30)
      ELSE IF exp = 0 \/ s > 54 \/ (e < 1 /\ fz) THEN sign
      ELSE sign \cup Add32(kept, base, inc).v

\* |x| > 0 as FCMP / FACGT see it: false for NaN, zero and flushed denormals
MagnitudeAboveZero(x, fz) ==
  ~IsNaN32(x) /\ x \cap (0..30) # {} /\ ~(fz /\ IsDenormal32(x))
\* FACGT(32, ., src, 0) on the two elements of a D register
FACGT_32(x, fz) ==
  (IF MagnitudeAboveZero(Trunc32(x), fz) THEN 0..31 ELSE {})
    \cup (IF MagnitudeAboveZero(Lsr(x, 32), fz) THEN 32..63 ELSE {})
\* INS(8, r, 7, r, 0): byte 0 copied into byte 7
INS_8_7_0(x) == (x \ (56..63)) \cup {i + 56 : i \in x \cap (0..7)}

\* ---- host instructions of the conversion helpers.  After a taken branch
\* instructions are emitted but not executed, up to the branch's label.
Live(m) == m.skip = ""
Branch(m, op, taken, label) ==
  IF Live(m) /\ taken THEN [Emit(m, op) EXCEPT !.skip = label] ELSE Emit(m, op)
SetJumpTarget(m, label) == IF m.skip = label THEN [m EXCEPT !.skip = ""] ELSE m
\* a write of a vector register by instruction op
VWrite(m, op, d, v) == IF Live(m) THEN [Emit(m, op) EXCEPT !.vreg[d] = v] ELSE Emit(m, op)
\* a write of the destination by one of the two conversions
Convert(m, op, by, d, v) ==
  IF Live(m) THEN [Emit(m, op) EXCEPT !.vreg[d] = v, !.wrote = Append(@, by)]
  ELSE Emit(m, op)
\* a write of host register X0 / X1
XWrite(m, op, n, v) ==
  IF Live(m) THEN [Emit(m, op) EXCEPT !.xreg[n] = v, !.clobbered = @ \cup {n}]
  ELSE Emit(m, op)

FCVT_s_d(m, d, x) ==
  Convert(m, "FCVT", "native", d, <<FCVT_32_64(m.vreg[x][1], m.fz), Zero>>)
FCVT_d_s(m, d, x) ==
  Convert(m, "FCVT", "native", d, <<FCVT_64_32(Trunc32(m.vreg[x][1]), m.fz), Zero>>)
FCVTN(m, d, x) ==
  Convert(m, "FCVTN", "native", d,
          <<FCVT_32_64(m.vreg[x][1], m.fz) \cup Lsl(FCVT_32_64(m.vreg[x][2], m.fz), 32, 64),
            Zero>>)
FCVTL(m, d, x) ==
  Convert(m, "FCVTL", "native", d,
          <<FCVT_64_32(Trunc32(m.vreg[x][1]), m.fz), FCVT_64_32(Lsr(m.vreg[x][1], 32), m.fz)>>)
FABS_32(m, d, x) == VWrite(m, "FABS", d, <<Trunc32(m.vreg[x][1]) \ {31}, Zero>>)
MOVI_8(m, d, imm) == VWrite(m, "MOVI", d, <<imm, Zero>>)
\* FACGT(32, d, x, y) on D registers
FACGT(m, d, x, y) ==
  LET p == VWrite(m, "FACGT", d, <<FACGT_32(m.vreg[x][1], m.fz), Zero>>)
  IN  IF Live(m) /\ m.vreg[y][1] # Zero THEN [p EXCEPT !.fault = TRUE] ELSE p
INS_8(m, d) == VWrite(m, "INS", d, <<INS_8_7_0(m.vreg[d][1]), Zero>>)
\* FCMP of a single / double with zero; the flags N, Z, C, V are written
Order(m, nan, zero, neg) ==
  IF ~Live(m) THEN Emit(m, "FCMP")
  ELSE [Emit(m, "FCMP") EXCEPT
          !.fcmp = IF nan THEN "UN" ELSE IF zero THEN "EQ" ELSE IF neg THEN "LT" ELSE "GT",
          !.nzc = [n |-> ~nan /\ ~zero /\ neg, z |-> ~nan /\ zero, c |-> nan \/ zero \/ ~neg]]
FCMP_32(m, x) ==
  LET v == Trunc32(m.vreg[x][1])
  IN  Order(m, IsNaN32(v), v \cap (0..30) = {} \/ (m.fz /\ IsDenormal32(v)), 31 \in v)
FCMP_64(m, x) ==
  LET v == m.vreg[x][1]
  IN  Order(m, IsNaN64(v), v \cap (0..62) = {} \/ (m.fz /\ Exp64(v) = 0), 63 \in v)
FMOV_X0_D(m, x) == XWrite(m, "FMOV", 0, m.vreg[x][1])
FMOV_W0_S(m, x) == XWrite(m, "FMOV", 0, Trunc32(m.vreg[x][1]))
UMOV_64(m, x) == XWrite(m, "UMOV", 0, m.vreg[x][2])
UMOV_32(m, x) == XWrite(m, "UMOV", 0, Lsr(m.vreg[x][1], 32))
FMOV_S_W1(m, d) == Convert(m, "FMOV", "cdts", d, <<Trunc32(m.xreg[1]), Zero>>)
FMOV_D_X1(m, d) == Convert(m, "FMOV", "cstd", d, <<m.xreg[1], Zero>>)
INS_32(m, d) ==
  Convert(m, "INS", "cdts", d,
          <<Trunc32(m.vreg[d][1]) \cup Lsl(Trunc32(m.xreg[1]), 32, 64), m.vreg[d][2]>>)
INS_64(m, d) == Convert(m, "INS", "cstd", d, <<m.vreg[d][1], m.xreg[1]>>)

\* registers the routines use besides the link register X30
Clobbers(routine) == IF routine = "cdts" THEN {0, 1, 2, 3, 30} ELSE {0, 1, 2, 3, 4, 30}
\* BL(cdts) / BL(cstd): input in X0, output in X1; the registers of the
\* routine and the flags are lost
BL(m, routine) ==
  LET p == [Emit(m, "BL") EXCEPT !.abi = Append(@, <<"call", routine>>)]
  IN  IF ~Live(m) THEN p
      ELSE [p EXCEPT !.xreg[1] = IF routine = "cdts" THEN ConvertToSingle(m.xreg[0])
                                 ELSE ConvertToDouble(m.xreg[0]),
                     !.clobbered = @ \cup Clobbers(routine),
                     !.nzc.c = ~@]
ABI_PushRegisters(m, regs) ==
  LET p == [Emit(m, "PUSH") EXCEPT !.abi = Append(@, <<"push", regs>>)]
  IN  IF ~Live(m) THEN p
      ELSE [p EXCEPT !.stack = Append(@, [regs |-> regs, lost |-> m.clobbered \cap regs])]
ABI_PopRegisters(m, regs) ==
  LET p == [Emit(m, "POP") EXCEPT !.abi = Append(@, <<"pop", regs>>)]
      top == m.stack[Len(m.stack)]
  IN  IF ~Live(m) THEN p
      ELSE IF m.stack = <<>> \/ top.regs # regs THEN [p EXCEPT !.fault = TRUE]
      ELSE [p EXCEPT !.stack = SubSeq(@, 1, Len(@) - 1),
                     !.clobbered = (@ \ regs) \cup top.lost]
\* gpr.GetCallerSavedUsed()
GetCallerSavedUsed(m) == m.used

INVALID_REG == "INVALID_REG"

\* ConvertDoubleToSingleLower that calls with the carry still pending
ConvertDoubleToSingleLower_NoFlush(m, guest_reg, dest_reg, src_reg) ==
  LET gpr_saved == GetCallerSavedUsed(m) \cap {0, 1, 2, 3, 30}
  IN  IF m.fpr_is_store_safe THEN FCVT_s_d(m, dest_reg, src_reg)
      ELSE ABI_PopRegisters(
             FMOV_S_W1(BL(FMOV_X0_D(ABI_PushRegisters(m, gpr_saved), src_reg),
                          "cdts"), dest_reg),
             gpr_saved)

ConvertDoubleToSingleLower(m, guest_reg, dest_reg, src_reg) ==
  LET gpr_saved == GetCallerSavedUsed(m) \cap {0, 1, 2, 3, 30}
  IN  IF m.fpr_is_store_safe THEN FCVT_s_d(m, dest_reg, src_reg)
      ELSE ABI_PopRegisters(
             FMOV_S_W1(BL(FMOV_X0_D(ABI_PushRegisters(FlushCarry(m), gpr_saved), src_reg),
                          "cdts"), dest_reg),
             gpr_saved)

\* ConvertDoubleToSinglePair without the move of the upper lane into X0
ConvertDoubleToSinglePair_SameLane(m, guest_reg, dest_reg, src_reg) ==
  LET gpr_saved == GetCallerSavedUsed(m) \cap {0, 1, 2, 3, 30}
      first(p) == BL(FMOV_X0_D(p, src_reg), "cdts")
      second(p) == INS_32(BL(FMOV_S_W1(p, dest_reg), "cdts"), dest_reg)
  IN  IF m.fpr_is_store_safe THEN FCVTN(m, dest_reg, src_reg)
      ELSE ABI_PopRegisters(second(first(ABI_PushRegisters(FlushCarry(m), gpr_saved))),
                            gpr_saved)

\* ConvertDoubleToSinglePair writing the destination before it reads the
\* upper lane of the source
ConvertDoubleToSinglePair_WritesFirst(m, guest_reg, dest_reg, src_reg) ==
  LET gpr_saved == GetCallerSavedUsed(m) \cap {0, 1, 2, 3, 30}
      first(p) == BL(FMOV_X0_D(p, src_reg), "cdts")
      second(p) == INS_32(BL(UMOV_64(FMOV_S_W1(p, dest_reg), src_reg), "cdts"), dest_reg)
  IN  IF m.fpr_is_store_safe THEN FCVTN(m, dest_reg, src_reg)
      ELSE ABI_PopRegisters(second(first(ABI_PushRegisters(FlushCarry(m), gpr_saved))),
                            gpr_saved)

ConvertDoubleToSinglePair(m, guest_reg, dest_reg, src_reg) ==
  LET gpr_saved == GetCallerSavedUsed(m) \cap {0, 1, 2, 3, 30}
      first(p) == BL(FMOV_X0_D(p, src_reg), "cdts")
      second(p) == INS_32(BL(FMOV_S_W1(UMOV_64(p, src_reg), dest_reg), "cdts"), dest_reg)
  IN  IF m.fpr_is_store_safe THEN FCVTN(m, dest_reg, src_reg)
      ELSE ABI_PopRegisters(second(first(ABI_PushRegisters(FlushCarry(m), gpr_saved))),
                            gpr_saved)

\* ConvertSingleToDoubleLower that takes the fast path on "not less than"
ConvertSingleToDoubleLower_FastUnlessLess(m, guest_reg, dest_reg, src_reg, scratch_reg) ==
  LET has == scratch_reg # INVALID_REG
      switch_to_farcode == ~m.farcode
      gpr_saved == GetCallerSavedUsed(m) \cap {0, 1, 2, 3, 4, 30}
      slow(p) == IF switch_to_farcode THEN SetJumpTarget(Branch(p, "B", TRUE, "slow"), "slow")
                 ELSE p
      ge(p) == slow(Branch(p, "B.GE", p.fcmp \in {"GT", "EQ"}, "fast"))
      check(p) ==
        IF has THEN ge(FCMP_32(FABS_32(p, scratch_reg, src_reg), scratch_reg)) ELSE p
      call(p) ==
        ABI_PopRegisters(
          FMOV_D_X1(BL(FMOV_W0_S(ABI_PushRegisters(p, gpr_saved), src_reg), "cstd"), dest_reg),
          gpr_saved)
      fast(p) ==
        IF has
        THEN SetJumpTarget(
               FCVT_d_s(SetJumpTarget(Branch(p, "B", TRUE, "continue1"), "fast"),
                        dest_reg, src_reg),
               "continue1")
        ELSE p
      asserted == IF scratch_reg = src_reg THEN [m EXCEPT !.fault = TRUE] ELSE m
  IN  IF m.fpr_is_store_safe THEN FCVT_d_s(asserted, dest_reg, src_reg)
      ELSE fast(call(check(FlushCarry(asserted))))

ConvertSingleToDoubleLower(m, guest_reg, dest_reg, src_reg, scratch_reg) ==
  LET has == scratch_reg # INVALID_REG
      switch_to_farcode == ~m.farcode
      gpr_saved == GetCallerSavedUsed(m) \cap {0, 1, 2, 3, 4, 30}
      slow(p) == IF switch_to_farcode THEN SetJumpTarget(Branch(p, "B", TRUE, "slow"), "slow")
                 ELSE p
      gt(p) == slow(Branch(p, "B.GT", p.fcmp = "GT", "fast"))
      check(p) ==
        IF has THEN gt(FCMP_32(FABS_32(p, scratch_reg, src_reg), scratch_reg)) ELSE p
      call(p) ==
        ABI_PopRegisters(
          FMOV_D_X1(BL(FMOV_W0_S(ABI_PushRegisters(p, gpr_saved), src_reg), "cstd"), dest_reg),
          gpr_saved)
      fast(p) ==
        IF has
        THEN SetJumpTarget(
               FCVT_d_s(SetJumpTarget(Branch(p, "B", TRUE, "continue1"), "fast"),
                        dest_reg, src_reg),
               "continue1")
        ELSE p
      asserted == IF scratch_reg = src_reg THEN [m EXCEPT !.fault = TRUE] ELSE m
  IN  IF m.fpr_is_store_safe THEN FCVT_d_s(asserted, dest_reg, src_reg)
      ELSE fast(call(check(FlushCarry(asserted))))

\* ConvertSingleToDoublePair without the copy of byte 0 into byte 7
ConvertSingleToDoublePair_NoInsert(m, guest_reg, dest_reg, src_reg, scratch_reg) ==
  LET has == scratch_reg # INVALID_REG
      switch_to_farcode == ~m.farcode
      gpr_saved == GetCallerSavedUsed(m) \cap {0, 1, 2, 3, 4, 30}
      slow(p) == IF switch_to_farcode THEN SetJumpTarget(Branch(p, "B", TRUE, "slow"), "slow")
                 ELSE p
      vs(p) == slow(Branch(p, "B.VS", p.fcmp = "UN", "fast"))
      check(p) ==
        IF has
        THEN vs(FCMP_64(FACGT(MOVI_8(p, scratch_reg, Zero), scratch_reg, src_reg, scratch_reg),
                        scratch_reg))
        ELSE p
      first(p) == BL(FMOV_W0_S(p, src_reg), "cstd")
      second(p) == INS_64(BL(FMOV_D_X1(UMOV_32(p, src_reg), dest_reg), "cstd"), dest_reg)
      call(p) == ABI_PopRegisters(second(first(ABI_PushRegisters(p, gpr_saved))), gpr_saved)
      fast(p) ==
        IF has
        THEN SetJumpTarget(
               FCVTL(SetJumpTarget(Branch(p, "B", TRUE, "continue1"), "fast"),
                     dest_reg, src_reg),
               "continue1")
        ELSE p
      asserted == IF scratch_reg = src_reg THEN [m EXCEPT !.fault = TRUE] ELSE m
  IN  IF m.fpr_is_store_safe THEN FCVTL(asserted, dest_reg, src_reg)
      ELSE fast(call(check(FlushCarry(asserted))))

ConvertSingleToDoublePair(m, guest_reg, dest_reg, src_reg, scratch_reg) ==
  LET has == scratch_reg # INVALID_REG
      switch_to_farcode == ~m.farcode
      gpr_saved == GetCallerSavedUsed(m) \cap {0, 1, 2, 3, 4, 30}
      slow(p) == IF switch_to_farcode THEN SetJumpTarget(Branch(p, "B", TRUE, "slow"), "slow")
                 ELSE p
      vs(p) == slow(Branch(p, "B.VS", p.fcmp = "UN", "fast"))
      check(p) ==
        IF has
        THEN vs(FCMP_64(INS_8(FACGT(MOVI_8(p, scratch_reg, Zero), scratch_reg, src_reg,
                                    scratch_reg), scratch_reg), scratch_reg))
        ELSE p
      first(p) == BL(FMOV_W0_S(p, src_reg), "cstd")
      second(p) == INS_64(BL(FMOV_D_X1(UMOV_32(p, src_reg), dest_reg), "cstd"), dest_reg)
      call(p) == ABI_PopRegisters(second(first(ABI_PushRegisters(p, gpr_saved))), gpr_saved)
      fast(p) ==
        IF has
        THEN SetJumpTarget(
               FCVTL(SetJumpTarget(Branch(p, "B", TRUE, "continue1"), "fast"),
                     dest_reg, src_reg),
               "continue1")
        ELSE p
      asserted == IF scratch_reg = src_reg THEN [m EXCEPT !.fault = TRUE] ELSE m
  IN  IF m.fpr_is_store_safe THEN FCVTL(asserted, dest_reg, src_reg)
      ELSE fast(call(check(FlushCarry(asserted))))

\* ------------------------------------------------- floating-point compare
\* FPSCR bits 12..16 hold the result class (FPRF); the four compare classes
\* are the CR bits shifted to bit 12
FPRF_SHIFT == 12
FPRF_MASK == 12..16
CR_SO == {0}
CR_EQ == {1}
CR_GT == {2}
CR_LT == {3}

\* order of two doubles as FCMP reports it
FCompare(x, y) ==
  LET mx == x \ {63}
      my == y \ {63}
  IN  IF IsNaN64(x) \/ IsNaN64(y) THEN "UN"
      ELSE IF mx = my /\ (mx = {} \/ (63 \in x <=> 63 \in y)) THEN "EQ"
      ELSE IF (63 \in x) # (63 \in y) THEN (IF 63 \in x THEN "LT" ELSE "GT")
      ELSE IF (63 \in x) # ULt(mx, my) THEN "LT"
      ELSE "GT"
\* FCMP VA, VB on the lower lanes of two guest registers
FCMP(m, a, b) ==
  [Emit(m, "FCMP") EXCEPT !.fcmp = FCompare(m.fval[a][1], m.fval[b][1])]
LDR_fpscr(m, d) == Wr(Emit(m, "LDR fpscr"), d, m.fpscr)
STR_fpscr(m, x) == [Emit(m, "STR fpscr") EXCEPT !.fpscr = Rd(m, x)]
\* ORRI2R on a path that may be jumped over
ORRI2R(m, d, x, imm) ==
  IF Live(m) THEN Wr(Emit(m, "ORRI2R"), d, Rd(m, x) \cup imm) ELSE Emit(m, "ORRI2R")

\* every class ORed into the same bit
fcmpX_class_AlwaysEqual(c) == Lsl(CR_EQ, FPRF_SHIFT, 32)
\* PowerPC::CR_xx << FPRF_SHIFT
fcmpX_class(c) == Lsl(c, FPRF_SHIFT, 32)

\* the value left in the condition-register field is outside the model: the
\* bound field is left with an unspecified value
fcmpX(m, inst) ==
  LET a == inst.FA
      b == inst.FB
      fprf == m.bFPRF /\ m.wantsFPRF
      singles == IsSingle(m, a) /\ IsSingle(m, b) /\ m.fpr_is_store_safe
      class(p, c) == IF fprf THEN ORRI2R(p, T("WA"), T("WA"), fcmpX_class(c)) ELSE p
      load(p) ==
        IF fprf
        THEN ANDI2R(LDR_fpscr(GetReg(p, "WA"), T("WA")), T("WA"), T("WA"), Not32(FPRF_MASK))
        ELSE p
      ordered(p) ==
        IF a # b
        THEN Branch(Branch(p, "B.GT", p.fcmp = "GT", "pGreater"),
                    "B.MI", p.fcmp = "LT", "pLesser")
        ELSE p
      nan(p) == Branch(p, "B.VS", p.fcmp = "UN", "pNaN")
      \* A == B
      equal(p) == Branch(class(Emit(p, "ORR"), CR_EQ), "B", TRUE, "continue1")
      unordered(p) == class(Emit(SetJumpTarget(p, "pNaN"), "MOVI2R"), CR_SO)
      greater(p) ==
        Branch(class(Emit(SetJumpTarget(Branch(p, "B", TRUE, "continue2"), "pGreater"),
                          "ORR"), CR_GT),
               "B", TRUE, "continue3")
      lesser(p) ==
        SetJumpTarget(SetJumpTarget(
          class(Emit(Emit(SetJumpTarget(p, "pLesser"), "ORR"), "ORR"), CR_LT),
          "continue2"), "continue3")
      others(p) == IF a # b THEN lesser(greater(p)) ELSE p
      store(p) == IF fprf THEN Unlock(STR_fpscr(p, T("WA")), "WA") ELSE p
      field(p) == [p EXCEPT !.cr.v = m.stale]
      m1 == BindCRToRegister(fprR(fprR(m, a, singles), b, singles))
  IN  IF m.bJITFloatingPointOff THEN FallBackToInterpreter(m)
      ELSE store(field(SetJumpTarget(
             others(unordered(equal(nan(ordered(FCMP(Emit(load(m1), "ORR"), a, b)))))),
             "continue1")))

\* translators by class; those of IntegerOE test the overflow-enable bit
IntegerOE == {"addx", "negx", "mullwx", "addzex", "subfx", "subfex", "subfcx",
              "subfzex", "addex", "addcx", "divwux", "divwx"}
IntegerOps == IntegerOE \cup {"addic", "subfic", "srawix", "srawx", "slwx", "srwx",
                              "cmp", "cmpl", "cmpi", "cmpli", "mulhwx", "mulhwux"}
FloatingPoint == {"fp_arith", "fp_logic", "fselx", "frspx", "fcmpX", "fctiwzx",
                  "fresx", "frsqrtex"}

\* the translator table (opcode dispatch)
Apply(name, x, inst) ==
  CASE name = "addcx" -> addcx(x, inst)
    [] name = "addic" -> addic(x, inst)
    [] name = "subfcx" -> subfcx(x, inst)
    [] name = "subfic" -> subfic(x, inst)
    [] name = "addzex" -> addzex(x, inst)
    [] name = "subfzex" -> subfzex(x, inst)
    [] name = "subfex" -> subfex(x, inst)
    [] name = "addex" -> addex(x, inst)
    [] name = "srawix" -> srawix(x, inst)
    [] name = "srawx" -> srawx(x, inst)
    [] name = "addx" -> addx(x, inst)
    [] name = "negx" -> negx(x, inst)
    [] name = "divwx" -> divwx(x, inst)
    [] name = "cmp" -> cmp(x, inst)
    [] name = "cmpl" -> cmpl(x, inst)
    [] name = "cmpi" -> cmpi(x, inst)
    [] name = "cmpli" -> cmpli(x, inst)
    [] name = "mulhwx" -> mulhwx(x, inst)
    [] name = "mulhwux" -> mulhwux(x, inst)
    [] name = "mullwx" -> mullwx(x, inst)
    [] name = "subfx" -> subfx(x, inst)
    [] name = "divwux" -> divwux(x, inst)
    [] name = "slwx" -> slwx(x, inst)
    [] name = "srwx" -> srwx(x, inst)
    [] name = "rlwinmx" -> rlwinmx(x, inst)
    [] name = "rlwimix" -> rlwimix(x, inst)
    [] name = "fp_arith" -> fp_arith(x, inst)
    [] name = "fp_logic" -> fp_logic(x, inst)
    [] name = "fselx" -> fselx(x, inst)
    [] name = "frspx" -> frspx(x, inst)
    [] name = "fcmpX" -> fcmpX(x, inst)
    [] name = "fctiwzx" -> fctiwzx(x, inst)
    [] name = "fresx" -> fresx(x, inst)
    [] name = "frsqrtex" -> frsqrtex(x, inst)

VARIABLES
  m,      \* the machine: register cache, tracker, host registers, guest state
  pre,    \* the machine on entry to the translator that ran last
  post,   \* the machine when that translator returned
  hist,   \* names of the translators run so far in this block
  cur,    \* the instruction record translated last
  pc      \* "compile": a translator runs next; "dispatch": the block loop
vars == <<m, pre, post, hist, cur, pc>>

\* analysis hints of one instruction: js.op->wantsCA and the one-instruction
\* lookahead.  An instruction whose successor reads the carry has wantsCA set.
Looks == {[canMerge |-> FALSE, nextInteger |-> TRUE, nextWantsCAInFlags |-> TRUE],
          [canMerge |-> TRUE, nextInteger |-> TRUE, nextWantsCAInFlags |-> FALSE],
          [canMerge |-> TRUE, nextInteger |-> TRUE, nextWantsCAInFlags |-> TRUE],
          [canMerge |-> TRUE, nextInteger |-> FALSE, nextWantsCAInFlags |-> FALSE]}
Hints == {h \in [wantsCA : BOOLEAN, look : Looks] : h.look.nextWantsCAInFlags => h.wantsCA}

Vals == {Zero, One, AllOnes32}
ValPairs == {<<AllOnes32, One>>, <<Zero, AllOnes32>>, <<One, Zero>>}
KindPairs == {<<"Imm", "Imm">>, <<"Imm", "Reg">>, <<"Reg", "Imm">>, <<"Mem", "Mem">>}
Garbage == B64

Slot(t, v) == [t |-> t, v |-> v]

\* a point inside a block where the tracker is resident in memory
Machine(k, v, ca, fr) ==
  [gpr |-> [i \in Regs |-> IF i = 0 THEN Slot(k[1], v[1]) ELSE Slot(k[2], v[2])],
   cr |-> Slot("Mem", Zero),
   tmp |-> [t \in Temps |-> Zero],
   locked |-> {},
   free |-> fr,
   stale |-> Garbage,
   nzc |-> [n |-> FALSE, z |-> FALSE, c |-> FALSE],
   xer_ca |-> ca,
   fpscr |-> Zero,
   carryFlag |-> InPPCState,
   wantsCA |-> TRUE, canMerge |-> FALSE, nextInteger |-> TRUE, nextWantsCAInFlags |-> FALSE,
   code |-> <<>>,
   fpr |-> [i \in Regs |-> [t |-> "Mem", single |-> FALSE]],
   fprIsSingle |-> [i \in Regs |-> FALSE],
   fval |-> [i \in Regs |-> <<Zero, Zero>>],
   vreg |-> [t \in FTemps |-> <<Zero, Zero>>],
   fpr_is_store_safe |-> TRUE,
   bFPRF |-> TRUE, wantsFPRF |-> FALSE,
   bJITIntegerOff |-> FALSE,
   bJITFloatingPointOff |-> FALSE,
   fz |-> FALSE, farcode |-> FALSE,
   used |-> {}, clobbered |-> {}, stack |-> <<>>, abi |-> <<>>,
   xreg |-> [n \in 0..1 |-> Zero], fcmp |-> "EQ", skip |-> "", wrote |-> <<>>,
   fault |-> FALSE]

NoInst == [RD |-> 0, RS |-> 0, RA |-> 0, RB |-> 0, Rc |-> FALSE, OE |-> FALSE,
           OPCD |-> 0, SIMM_16 |-> Zero, UIMM |-> Zero, SH |-> 0, MB |-> 0, ME |-> 0,
           FA |-> 0, FB |-> 0, FC |-> 0, FD |-> 0, SUBOP5 |-> 0, SUBOP10 |-> 0]

Init ==
  /\ \E k \in KindPairs, v \in ValPairs, ca \in {Zero, One}, fr \in {0, MaxFreeRegs} :
       m = Machine(k, v, ca, fr)
  /\ pre = m
  /\ post = m
  /\ hist = <<>>
  /\ cur = NoInst
  /\ pc = "compile"

\* the instruction has been fetched: its hints are current, nothing emitted for it yet
Enter(h) ==
  [m EXCEPT !.wantsCA = h.wantsCA, !.canMerge = h.look.canMerge,
            !.nextInteger = h.look.nextInteger,
            !.nextWantsCAInFlags = h.look.nextWantsCAInFlags,
            !.code = <<>>]

\* the lookahead of the previous instruction described this one
Expected(name) ==
  \/ hist = <<>>
  \/ /\ post.nextWantsCAInFlags <=> name \in Consumers
     /\ post.nextInteger <=> name \in IntegerOps

\* the translator of instruction name has run on the entry state and left result
Compile(name, inst, h, result) ==
  /\ pc = "compile"
  /\ Len(hist) < MaxInsts
  /\ Expected(name)
  /\ pre' = Enter(h)
  /\ post' = result
  /\ m' = post'
  /\ hist' = Append(hist, name)
  /\ cur' = inst
  /\ pc' = "dispatch"

\* instruction records by form
RegTriples == {<<0, 1, d>> : d \in Regs}
XO(r, rc, oe) == [NoInst EXCEPT !.RA = r[1], !.RB = r[2], !.RD = r[3], !.RS = r[3],
                                !.Rc = rc, !.OE = oe]
D(r, opcd, imm) == [NoInst EXCEPT !.RA = r[1], !.RD = r[3], !.RS = r[3], !.OPCD = opcd,
                                  !.SIMM_16 = imm]
\* X-form shifts: rA is the destination, rS the source
XS(r, rc, sh) == [NoInst EXCEPT !.RS = r[1], !.RB = r[2], !.RA = r[3], !.Rc = rc, !.SH = sh]

Compile_addcx == \E r \in RegTriples, h \in Hints :
  Compile("addcx", XO(r, FALSE, FALSE), h,
          addcx(Enter(h), XO(r, FALSE, FALSE)))
Compile_addic == \E r \in RegTriples, imm \in {One}, h \in Hints :
  Compile("addic", D(r, 12, imm), h,
          addic(Enter(h), D(r, 12, imm)))
Compile_subfcx == \E r \in RegTriples, h \in Hints :
  Compile("subfcx", XO(r, FALSE, FALSE), h,
          subfcx(Enter(h), XO(r, FALSE, FALSE)))
Compile_subfic == \E r \in RegTriples, imm \in {One}, h \in Hints :
  Compile("subfic", D(r, 8, imm), h,
          subfic(Enter(h), D(r, 8, imm)))
Compile_addzex == \E r \in RegTriples, h \in Hints :
  Compile("addzex", XO(r, FALSE, FALSE), h,
          addzex(Enter(h), XO(r, FALSE, FALSE)))
Compile_subfzex == \E r \in RegTriples, h \in Hints :
  Compile("subfzex", XO(r, FALSE, FALSE), h,
          subfzex(Enter(h), XO(r, FALSE, FALSE)))
Compile_addex == \E r \in RegTriples, rc \in BOOLEAN, h \in Hints :
  Compile("addex", XO(r, rc, FALSE), h,
          addex(Enter(h), XO(r, rc, FALSE)))
Compile_subfex == \E r \in RegTriples, h \in Hints :
  Compile("subfex", XO(r, FALSE, FALSE), h,
          subfex(Enter(h), XO(r, FALSE, FALSE)))
Compile_srawix == \E r \in RegTriples, sh \in {0, 1}, h \in Hints :
  Compile("srawix", XS(r, FALSE, sh), h,
          srawix(Enter(h), XS(r, FALSE, sh)))
Compile_srawx == \E r \in RegTriples, h \in Hints :
  Compile("srawx", XS(r, FALSE, 0), h,
          srawx(Enter(h), XS(r, FALSE, 0)))
Compile_addx == \E r \in RegTriples, h \in Hints :
  Compile("addx", XO(r, FALSE, FALSE), h,
          addx(Enter(h), XO(r, FALSE, FALSE)))
Compile_divwx == \E r \in RegTriples, h \in Hints :
  Compile("divwx", XO(r, FALSE, FALSE), h,
          divwx(Enter(h), XO(r, FALSE, FALSE)))

\* the block loop after a translator returns: the carry is flushed when the
\* lookahead fails, which ends the block; otherwise the next instruction is fetched
BlockEnds == ~(m.canMerge /\ m.nextInteger) \/ Len(hist) = MaxInsts
Dispatch ==
  /\ pc = "dispatch"
  /\ m' = IF BlockEnds THEN FlushCarry(m) ELSE m
  /\ pc' = IF BlockEnds THEN "done" ELSE "compile"
  /\ UNCHANGED <<pre, post, hist, cur>>

Next ==
  \/ Compile_addcx \/ Compile_addic \/ Compile_subfcx \/ Compile_subfic
  \/ Compile_addzex \/ Compile_subfzex \/ Compile_addex \/ Compile_subfex
  \/ Compile_srawix \/ Compile_srawx \/ Compile_addx \/ Compile_divwx
  \/ Dispatch

Spec == Init /\ [][Next]_vars

\* ------------------------------------------ blocks with fallback decisions
InitFallback ==
  /\ \E k \in {<<"Imm", "Reg">>, <<"Mem", "Mem">>}, intOff \in BOOLEAN, fpOff \in BOOLEAN,
        fprf \in BOOLEAN :
       m = [Machine(k, <<AllOnes32, One>>, One, MaxFreeRegs)
              EXCEPT !.bJITIntegerOff = intOff, !.bJITFloatingPointOff = fpOff,
                     !.wantsFPRF = fprf]
  /\ pre = m
  /\ post = m
  /\ hist = <<>>
  /\ cur = NoInst
  /\ pc = "compile"

\* the next instruction can be merged; it is an integer instruction exactly
\* when the block goes on into one
HintsF == {h \in Hints : h.wantsCA /\ h.look.canMerge /\ h.look.nextInteger}
Regs3 == <<0, 1, 1>>
FP(rc, opcd, op5, op10) ==
  [NoInst EXCEPT !.FA = 0, !.FB = 1, !.FC = 0, !.FD = 1, !.Rc = rc, !.OPCD = opcd,
                 !.SUBOP5 = op5, !.SUBOP10 = op10]

Try_addx == \E oe \in BOOLEAN, h \in HintsF : Compile("addx", XO(Regs3, FALSE, oe), h,
          addx(Enter(h), XO(Regs3, FALSE, oe)))
Try_negx == \E oe \in BOOLEAN, h \in HintsF : Compile("negx", XO(Regs3, FALSE, oe), h,
          negx(Enter(h), XO(Regs3, FALSE, oe)))
Try_mullwx == \E oe \in BOOLEAN, h \in HintsF : Compile("mullwx", XO(Regs3, FALSE, oe), h,
          mullwx(Enter(h), XO(Regs3, FALSE, oe)))
Try_addzex == \E oe \in BOOLEAN, h \in HintsF : Compile("addzex", XO(Regs3, FALSE, oe), h,
          addzex(Enter(h), XO(Regs3, FALSE, oe)))
Try_subfx == \E oe \in BOOLEAN, h \in HintsF : Compile("subfx", XO(Regs3, FALSE, oe), h,
          subfx(Enter(h), XO(Regs3, FALSE, oe)))
Try_subfex == \E oe \in BOOLEAN, h \in HintsF : Compile("subfex", XO(Regs3, FALSE, oe), h,
          subfex(Enter(h), XO(Regs3, FALSE, oe)))
Try_subfcx == \E oe \in BOOLEAN, h \in HintsF : Compile("subfcx", XO(Regs3, FALSE, oe), h,
          subfcx(Enter(h), XO(Regs3, FALSE, oe)))
Try_subfzex == \E oe \in BOOLEAN, h \in HintsF : Compile("subfzex", XO(Regs3, FALSE, oe), h,
          subfzex(Enter(h), XO(Regs3, FALSE, oe)))
Try_addex == \E oe \in BOOLEAN, h \in HintsF : Compile("addex", XO(Regs3, FALSE, oe), h,
          addex(Enter(h), XO(Regs3, FALSE, oe)))
Try_addcx == \E oe \in BOOLEAN, h \in HintsF : Compile("addcx", XO(Regs3, FALSE, oe), h,
          addcx(Enter(h), XO(Regs3, FALSE, oe)))
Try_divwux == \E oe \in BOOLEAN, h \in HintsF : Compile("divwux", XO(Regs3, FALSE, oe), h,
          divwux(Enter(h), XO(Regs3, FALSE, oe)))
Try_divwx == \E oe \in BOOLEAN, h \in HintsF : Compile("divwx", XO(Regs3, FALSE, oe), h,
          divwx(Enter(h), XO(Regs3, FALSE, oe)))
Try_addic == \E h \in HintsF : Compile("addic", D(Regs3, 12, One), h,
          addic(Enter(h), D(Regs3, 12, One)))
Try_subfic == \E h \in HintsF : Compile("subfic", D(Regs3, 8, One), h,
          subfic(Enter(h), D(Regs3, 8, One)))
Try_srawix == \E h \in HintsF : Compile("srawix", XS(Regs3, FALSE, 1), h,
          srawix(Enter(h), XS(Regs3, FALSE, 1)))
Try_srawx == \E h \in HintsF : Compile("srawx", XS(Regs3, FALSE, 0), h,
          srawx(Enter(h), XS(Regs3, FALSE, 0)))
Try_slwx == \E h \in HintsF : Compile("slwx", XS(Regs3, FALSE, 0), h,
          slwx(Enter(h), XS(Regs3, FALSE, 0)))
Try_srwx == \E h \in HintsF : Compile("srwx", XS(Regs3, FALSE, 0), h,
          srwx(Enter(h), XS(Regs3, FALSE, 0)))
Try_cmp == \E h \in HintsF : Compile("cmp", XO(Regs3, FALSE, FALSE), h,
          cmp(Enter(h), XO(Regs3, FALSE, FALSE)))
Try_cmpl == \E h \in HintsF : Compile("cmpl", XO(Regs3, FALSE, FALSE), h,
          cmpl(Enter(h), XO(Regs3, FALSE, FALSE)))
Try_cmpi == \E h \in HintsF : Compile("cmpi", D(Regs3, 11, One), h,
          cmpi(Enter(h), D(Regs3, 11, One)))
Try_cmpli == \E h \in HintsF :
  Compile("cmpli", [D(Regs3, 10, Zero) EXCEPT !.UIMM = One], h,
          cmpli(Enter(h), [D(Regs3, 10, Zero) EXCEPT !.UIMM = One]))
Try_fp_arith == \E rc \in BOOLEAN, opcd \in {63, 59, 4}, op5 \in {21, 25, 29}, h \in HintsF :
  (opcd = 4 => op5 # 29) /\ Compile("fp_arith", FP(rc, opcd, op5, 0), h,
          fp_arith(Enter(h), FP(rc, opcd, op5, 0)))
Try_fp_logic == \E rc \in BOOLEAN, op10 \in {40, 72, 136}, h \in HintsF :
  Compile("fp_logic", FP(rc, 63, 0, op10), h,
          fp_logic(Enter(h), FP(rc, 63, 0, op10)))
Try_fselx == \E rc \in BOOLEAN, h \in HintsF : Compile("fselx", FP(rc, 63, 23, 0), h,
          fselx(Enter(h), FP(rc, 63, 23, 0)))
Try_frspx == \E rc \in BOOLEAN, h \in HintsF : Compile("frspx", FP(rc, 63, 0, 12), h,
          frspx(Enter(h), FP(rc, 63, 0, 12)))
Try_fcmpX == \E h \in HintsF : Compile("fcmpX", FP(FALSE, 63, 0, 0), h,
          fcmpX(Enter(h), FP(FALSE, 63, 0, 0)))
Try_fctiwzx == \E rc \in BOOLEAN, h \in HintsF : Compile("fctiwzx", FP(rc, 63, 0, 15), h,
          fctiwzx(Enter(h), FP(rc, 63, 0, 15)))
Try_fresx == \E rc \in BOOLEAN, h \in HintsF : Compile("fresx", FP(rc, 59, 24, 0), h,
          fresx(Enter(h), FP(rc, 59, 24, 0)))
Try_frsqrtex == \E rc \in BOOLEAN, h \in HintsF : Compile("frsqrtex", FP(rc, 63, 26, 0), h,
          frsqrtex(Enter(h), FP(rc, 63, 26, 0)))

NextFallback ==
  \/ Try_addx \/ Try_negx \/ Try_mullwx \/ Try_addzex \/ Try_subfx \/ Try_subfex
  \/ Try_subfcx \/ Try_subfzex \/ Try_addex \/ Try_addcx \/ Try_divwux \/ Try_divwx
  \/ Try_addic \/ Try_subfic \/ Try_srawix \/ Try_srawx \/ Try_slwx \/ Try_srwx
  \/ Try_cmp \/ Try_cmpl \/ Try_cmpi \/ Try_cmpli
  \/ Try_fp_arith \/ Try_fp_logic \/ Try_fselx \/ Try_frspx \/ Try_fcmpX
  \/ Try_fctiwzx \/ Try_fresx \/ Try_frsqrtex
  \/ Dispatch

SpecFallback == InitFallback /\ [][NextFallback]_vars

\* ------------------------------------------------- blocks with compares
CmpVals == {Zero, One, SignBit32, AllOnes32}
CmpKinds == {<<"Imm", "Imm">>, <<"Imm", "Reg">>, <<"Reg", "Imm">>, <<"Reg", "Reg">>,
             <<"Mem", "Mem">>}
\* SIMM_16 values 0, 1, -1, -32768, 32767 and UIMM values 0, 1, 0xFFFF
SImms == {Zero, One, AllOnes32, 15..31, 0..14}
UImms == {Zero, One, 0..15}
HintCmp == [wantsCA |-> FALSE,
            look |-> [canMerge |-> TRUE, nextInteger |-> TRUE, nextWantsCAInFlags |-> FALSE]]

InitCmp ==
  /\ \E k \in CmpKinds, v0 \in CmpVals, v1 \in CmpVals, g \in {Zero, Garbage} :
       \* a host register handed out holds either nothing or all ones
       m = [Machine(k, <<v0, v1>>, Zero, MaxFreeRegs) EXCEPT !.stale = g]
  /\ pre = m
  /\ post = m
  /\ hist = <<>>
  /\ cur = NoInst
  /\ pc = "compile"

Cmp_cmp == \E a \in Regs, b \in Regs :
  Compile("cmp", XO(<<a, b, 0>>, FALSE, FALSE), HintCmp,
          cmp(Enter(HintCmp), XO(<<a, b, 0>>, FALSE, FALSE)))
Cmp_cmpl == \E a \in Regs, b \in Regs :
  Compile("cmpl", XO(<<a, b, 0>>, FALSE, FALSE), HintCmp,
          cmpl(Enter(HintCmp), XO(<<a, b, 0>>, FALSE, FALSE)))
Cmp_cmpi == \E a \in Regs, imm \in SImms :
  Compile("cmpi", D(<<a, 0, 0>>, 11, imm), HintCmp,
          cmpi(Enter(HintCmp), D(<<a, 0, 0>>, 11, imm)))
Cmp_cmpli == \E a \in Regs, imm \in UImms :
  Compile("cmpli", [D(<<a, 0, 0>>, 10, Zero) EXCEPT !.UIMM = imm], HintCmp,
          cmpli(Enter(HintCmp), [D(<<a, 0, 0>>, 10, Zero) EXCEPT !.UIMM = imm]))
Cmp_slwx == \E r \in RegTriples : Compile("slwx", XS(r, FALSE, 0), HintCmp,
          slwx(Enter(HintCmp), XS(r, FALSE, 0)))
Cmp_srwx == \E r \in RegTriples : Compile("srwx", XS(r, FALSE, 0), HintCmp,
          srwx(Enter(HintCmp), XS(r, FALSE, 0)))
Cmp_srawx == \E r \in RegTriples : Compile("srawx", XS(r, FALSE, 0), HintCmp,
          srawx(Enter(HintCmp), XS(r, FALSE, 0)))

NextCmp ==
  \/ Cmp_cmp \/ Cmp_cmpl \/ Cmp_cmpi \/ Cmp_cmpli
  \/ Cmp_slwx \/ Cmp_srwx \/ Cmp_srawx
  \/ Dispatch

SpecCmp == InitCmp /\ [][NextCmp]_vars

\* ------------------------------ blocks of translators on 64-bit views
HalfVals == {One, SignBit32, AllOnes32}
HalfKinds == {<<"Imm", "Reg">>, <<"Reg", "Reg">>, <<"Mem", "Mem">>}

InitUpper ==
  /\ \E k \in HalfKinds, v0 \in HalfVals, v1 \in HalfVals, g \in {Zero, Garbage} :
       \* a host register handed out holds either nothing or all ones
       m = [Machine(k, <<v0, v1>>, Zero, MaxFreeRegs) EXCEPT !.stale = g]
  /\ pre = m
  /\ post = m
  /\ hist = <<>>
  /\ cur = NoInst
  /\ pc = "compile"

Upper_slwx == \E r \in RegTriples : Compile("slwx", XS(r, FALSE, 0), HintCmp,
          slwx(Enter(HintCmp), XS(r, FALSE, 0)))
Upper_srwx == \E r \in RegTriples : Compile("srwx", XS(r, FALSE, 0), HintCmp,
          srwx(Enter(HintCmp), XS(r, FALSE, 0)))
Upper_srawx == \E r \in RegTriples : Compile("srawx", XS(r, FALSE, 0), HintCmp,
          srawx(Enter(HintCmp), XS(r, FALSE, 0)))
Upper_srawix == \E r \in RegTriples, sh \in {0, 1, 31} :
  Compile("srawix", XS(r, FALSE, sh), HintCmp, srawix(Enter(HintCmp), XS(r, FALSE, sh)))
Upper_mulhwx == \E r \in RegTriples, rc \in BOOLEAN :
  Compile("mulhwx", XO(r, rc, FALSE), HintCmp, mulhwx(Enter(HintCmp), XO(r, rc, FALSE)))
Upper_mulhwux == \E r \in RegTriples, rc \in BOOLEAN :
  Compile("mulhwux", XO(r, rc, FALSE), HintCmp, mulhwux(Enter(HintCmp), XO(r, rc, FALSE)))
Upper_mullwx == \E r \in RegTriples :
  Compile("mullwx", XO(r, FALSE, FALSE), HintCmp, mullwx(Enter(HintCmp), XO(r, FALSE, FALSE)))
Upper_addx == \E r \in RegTriples :
  Compile("addx", XO(r, FALSE, FALSE), HintCmp, addx(Enter(HintCmp), XO(r, FALSE, FALSE)))
Upper_subfx == \E r \in RegTriples :
  Compile("subfx", XO(r, FALSE, FALSE), HintCmp, subfx(Enter(HintCmp), XO(r, FALSE, FALSE)))
Upper_negx == \E r \in RegTriples :
  Compile("negx", XO(r, FALSE, FALSE), HintCmp, negx(Enter(HintCmp), XO(r, FALSE, FALSE)))
Upper_divwx == \E r \in RegTriples :
  Compile("divwx", XO(r, FALSE, FALSE), HintCmp, divwx(Enter(HintCmp), XO(r, FALSE, FALSE)))
Upper_divwux == \E r \in RegTriples :
  Compile("divwux", XO(r, FALSE, FALSE), HintCmp, divwux(Enter(HintCmp), XO(r, FALSE, FALSE)))
Upper_cmpl == \E a \in Regs, b \in Regs :
  Compile("cmpl", XO(<<a, b, 0>>, FALSE, FALSE), HintCmp,
          cmpl(Enter(HintCmp), XO(<<a, b, 0>>, FALSE, FALSE)))
Upper_cmpli == \E a \in Regs, imm \in UImms :
  Compile("cmpli", [D(<<a, 0, 0>>, 10, Zero) EXCEPT !.UIMM = imm], HintCmp,
          cmpli(Enter(HintCmp), [D(<<a, 0, 0>>, 10, Zero) EXCEPT !.UIMM = imm]))

NextUpper ==
  \/ Upper_slwx \/ Upper_srwx \/ Upper_srawx \/ Upper_srawix
  \/ Upper_mulhwx \/ Upper_mulhwux \/ Upper_mullwx
  \/ Upper_addx \/ Upper_subfx \/ Upper_negx \/ Upper_divwx \/ Upper_divwux
  \/ Upper_cmpl \/ Upper_cmpli
  \/ Dispatch

SpecUpper == InitUpper /\ [][NextUpper]_vars

\* ------------------------------- one-instruction blocks of carry arithmetic
ArithVals == {Zero, One, {1}, MaxPos32, SignBit32, 1..31, AllOnes32}
ArithKinds == {<<"Imm", "Imm">>, <<"Reg", "Reg">>, <<"Mem", "Mem">>}
ArithImms == {Zero, One, AllOnes32, 15..31, 0..14}

InitArith ==
  /\ \E k \in ArithKinds, v0 \in ArithVals, v1 \in ArithVals :
       m = Machine(k, <<v0, v1>>, Zero, MaxFreeRegs)
  /\ pre = m
  /\ post = m
  /\ hist = <<>>
  /\ cur = NoInst
  /\ pc = "compile"

Arith_addcx ==
  /\ hist = <<>>
  /\ pc = "compile"
  /\ \E r \in RegTriples, h \in Hints :
       Compile("addcx", XO(r, FALSE, FALSE), h,
             addcx(Enter(h), XO(r, FALSE, FALSE)))
Arith_subfcx ==
  /\ hist = <<>>
  /\ pc = "compile"
  /\ \E r \in RegTriples, h \in Hints :
       Compile("subfcx", XO(r, FALSE, FALSE), h,
             subfcx(Enter(h), XO(r, FALSE, FALSE)))
Arith_addic ==
  /\ hist = <<>>
  /\ pc = "compile"
  /\ \E r \in RegTriples, imm \in ArithImms, h \in Hints :
       Compile("addic", D(r, 12, imm), h,
             addic(Enter(h), D(r, 12, imm)))
Arith_subfic ==
  /\ hist = <<>>
  /\ pc = "compile"
  /\ \E r \in RegTriples, imm \in ArithImms, h \in Hints :
       Compile("subfic", D(r, 8, imm), h,
             subfic(Enter(h), D(r, 8, imm)))

NextArith ==
  \/ Arith_addcx \/ Arith_subfcx \/ Arith_addic \/ Arith_subfic
  \/ Dispatch

SpecArith == InitArith /\ [][NextArith]_vars

\* --------------------------------------- one rlwinmx on every SH, MB, ME
\* 0x86C3C219 and 0xFFFFFFFF
RotVals == {{0, 3, 4, 9, 14, 15, 16, 17, 22, 23, 25, 26, 31}, AllOnes32}
RotKinds == {<<"Imm", "Mem">>, <<"Reg", "Mem">>}
Fields == 0..31
\* M-form: rA is the destination, rS the source
MF(s, a, sh, mb, me) == [NoInst EXCEPT !.RS = s, !.RA = a, !.SH = sh, !.MB = mb, !.ME = me]

InitRot ==
  /\ \E k \in RotKinds, v \in RotVals : m = Machine(k, <<v, Zero>>, Zero, MaxFreeRegs)
  /\ pre = m
  /\ post = m
  /\ hist = <<>>
  /\ cur = NoInst
  /\ pc = "compile"

Rot_rlwinmx ==
  /\ hist = <<>>
  /\ pc = "compile"
  /\ \E a \in Regs, sh \in Fields, mb \in Fields, me \in Fields :
       Compile("rlwinmx", MF(0, a, sh, mb, me), HintCmp,
             rlwinmx(Enter(HintCmp), MF(0, a, sh, mb, me)))

NextRot == Rot_rlwinmx \/ Dispatch

SpecRot == InitRot /\ [][NextRot]_vars

\* ------------------------------ one floating-point arithmetic instruction
\* raw bits of the double in a lane: rounding bit alone, bits below it, a
\* mantissa of ones from the rounding bit up, ones up to the top, bit 28,
\* 1.0 + 2^-25 + 2^-47, zero and all ones
LaneVals == {{27}, 0..26, 27..51, 27..63, {28}, (52..61) \cup {27, 5}, Zero, B64}
UpperVals == {Zero, 27..63}
\* allocator's single flag and the analysis hint of one guest register: a
\* register the allocator holds as single is known single to the analysis
SingleHints == {<<FALSE, FALSE>>, <<FALSE, TRUE>>, <<TRUE, TRUE>>}
FPOps == {18, 20, 21, 25, 28, 29, 30, 31}
AF(c, d, opcd, op5) ==
  [NoInst EXCEPT !.FA = 0, !.FB = 1, !.FC = c, !.FD = d, !.OPCD = opcd, !.SUBOP5 = op5]

InitFP ==
  /\ \E s0 \in SingleHints, s1 \in SingleHints, v \in LaneVals, w \in UpperVals :
       m = [Machine(<<"Mem", "Mem">>, <<Zero, Zero>>, Zero, MaxFreeRegs)
              EXCEPT !.fpr = [i \in Regs |-> [t |-> "Reg",
                                single |-> IF i = 0 THEN s0[1] ELSE s1[1]]],
                     !.fprIsSingle = [i \in Regs |-> IF i = 0 THEN s0[2] ELSE s1[2]],
                     !.fval = [i \in Regs |-> <<v, w>>]]
  /\ pre = m
  /\ post = m
  /\ hist = <<>>
  /\ cur = NoInst
  /\ pc = "compile"

FP_fp_arith ==
  /\ hist = <<>>
  /\ pc = "compile"
  /\ \E c \in Regs, d \in Regs, opcd \in {59, 63, 4}, op5 \in FPOps :
       /\ opcd = 4 => op5 <= 25
       /\ Compile("fp_arith", AF(c, d, opcd, op5), HintCmp,
                  fp_arith(Enter(HintCmp), AF(c, d, opcd, op5)))

NextFP == FP_fp_arith \/ Dispatch

SpecFP == InitFP /\ [][NextFP]_vars

\* ------------------------------------- one call of a conversion helper
\* +0, -0, smallest and largest denormal, smallest and largest normal,
\* +inf, -inf, a quiet and a signaling NaN, the largest negative denormal, 1.0
SingleVals == {Zero, {31}, {0}, 0..22, {23}, (0..22) \cup (24..30), 23..30, 23..31,
               22..30, {0} \cup (23..30), (0..22) \cup {31}, 23..29}
UpperSingles == {Zero, {0}, 23..29, {0} \cup (23..30)}
\* doubles no single represents: 1 + 2^-24, 2^128, 2^-151, the smallest
\* denormal, the largest normal
OtherDoubles == {(52..61) \cup {28}, {62} \cup (52..58), {61} \cup (53..57) \cup {52, 59},
                 {0}, (0..51) \cup (53..62)}
\* a store-safe register holds what single arithmetic of the host leaves: no
\* signaling NaN, and no denormal when the host flushes them
StoreSafe32(x, fz) == ~(IsNaN32(x) /\ 22 \notin x) /\ ~(fz /\ IsDenormal32(x))
SingleSrcs == {<<lo \cup Lsl(hi, 32, 64), Zero>> : lo \in SingleVals, hi \in UpperSingles}
DoubleSrcs ==
  {<<ConvertToDouble(lo), ConvertToDouble(hi)>> : lo \in SingleVals, hi \in UpperSingles}
    \cup {<<d, Zero>> : d \in OtherDoubles}
StoreSafeSrc(single, src, fz) ==
  IF single THEN StoreSafe32(Trunc32(src[1]), fz) /\ StoreSafe32(Lsr(src[1], 32), fz)
  ELSE \E lo \in SingleVals, hi \in UpperSingles :
         /\ StoreSafe32(lo, fz) /\ StoreSafe32(hi, fz)
         /\ src = <<ConvertToDouble(lo), ConvertToDouble(hi)>>
UsedSets == {{}, {0, 4, 5}, {1, 2, 3, 30, 8}}
CarryIn == {InPPCState, InHostCarry, ConstantTrue}
Args(guest_reg, dest_reg, src_reg, scratch_reg) ==
  [guest_reg |-> guest_reg, dest_reg |-> dest_reg, src_reg |-> src_reg,
   scratch_reg |-> scratch_reg]

InitConv ==
  /\ \E single \in BOOLEAN, fz \in BOOLEAN, safe \in BOOLEAN, far \in BOOLEAN,
        used \in UsedSets, cf \in CarryIn :
       \E src \in IF single THEN SingleSrcs ELSE DoubleSrcs :
         /\ safe => StoreSafeSrc(single, src, fz)
         /\ m = [Machine(<<"Mem", "Mem">>, <<Zero, Zero>>, Zero, MaxFreeRegs)
                   EXCEPT !.fpr[0] = [t |-> "Reg", single |-> single],
                          !.vreg["Q0"] = src,
                          !.fz = fz, !.fpr_is_store_safe = safe, !.farcode = far,
                          !.used = used, !.carryFlag = cf, !.nzc.c = (cf = InHostCarry)]
  /\ pre = m
  /\ post = m
  /\ hist = <<>>
  /\ cur = NoInst
  /\ pc = "compile"

Dests == {"V0", "Q0"}
Scratches == {"V1", INVALID_REG}
Conv_ConvertSingleToDoubleLower ==
  /\ hist = <<>>
  /\ pc = "compile"
  /\ IsSingle(m, 0)
  /\ \E d \in Dests, sc \in Scratches :
       Compile("ConvertSingleToDoubleLower", Args(0, d, "Q0", sc), HintCmp,
               ConvertSingleToDoubleLower(Enter(HintCmp), 0, d, "Q0", sc))
Conv_ConvertSingleToDoublePair ==
  /\ hist = <<>>
  /\ pc = "compile"
  /\ IsSingle(m, 0)
  /\ \E d \in Dests, sc \in Scratches :
       Compile("ConvertSingleToDoublePair", Args(0, d, "Q0", sc), HintCmp,
               ConvertSingleToDoublePair(Enter(HintCmp), 0, d, "Q0", sc))
Conv_ConvertDoubleToSingleLower ==
  /\ hist = <<>>
  /\ pc = "compile"
  /\ ~IsSingle(m, 0)
  /\ \E d \in Dests :
       Compile("ConvertDoubleToSingleLower", Args(0, d, "Q0", INVALID_REG), HintCmp,
               ConvertDoubleToSingleLower(Enter(HintCmp), 0, d, "Q0"))
Conv_ConvertDoubleToSinglePair ==
  /\ hist = <<>>
  /\ pc = "compile"
  /\ ~IsSingle(m, 0)
  /\ \E d \in Dests :
       Compile("ConvertDoubleToSinglePair", Args(0, d, "Q0", INVALID_REG), HintCmp,
               ConvertDoubleToSinglePair(Enter(HintCmp), 0, d, "Q0"))

NextConv ==
  \/ Conv_ConvertSingleToDoubleLower \/ Conv_ConvertSingleToDoublePair
  \/ Conv_ConvertDoubleToSingleLower \/ Conv_ConvertDoubleToSinglePair
  \/ Dispatch

SpecConv == InitConv /\ [][NextConv]_vars

\* ------------------------ one add / subtract extended on every carry-in
CarryVals == {Zero, One, MaxPos32, 1..31, AllOnes32}
CarryKinds == {<<"Imm", "Imm">>, <<"Imm", "Reg">>, <<"Reg", "Imm">>, <<"Reg", "Reg">>}
\* tracker state, xer_ca and host C on entry; xer_ca and C disagree with the
\* carry wherever the tracker says they are not the carry
CarryEntries == {<<InPPCState, Zero, TRUE>>, <<InPPCState, One, FALSE>>,
                 <<InHostCarry, One, FALSE>>, <<InHostCarry, Zero, TRUE>>,
                 <<ConstantTrue, Zero, FALSE>>, <<ConstantFalse, One, TRUE>>}

InitCarryIn ==
  /\ \E k \in CarryKinds, v0 \in CarryVals, v1 \in CarryVals, e \in CarryEntries :
       m = [Machine(k, <<v0, v1>>, e[2], MaxFreeRegs)
              EXCEPT !.carryFlag = e[1], !.nzc.c = e[3]]
  /\ pre = m
  /\ post = m
  /\ hist = <<>>
  /\ cur = NoInst
  /\ pc = "compile"

CarryIn_addex ==
  /\ hist = <<>>
  /\ pc = "compile"
  /\ \E r \in RegTriples, h \in Hints :
       Compile("addex", XO(r, FALSE, FALSE), h, addex(Enter(h), XO(r, FALSE, FALSE)))
CarryIn_subfex ==
  /\ hist = <<>>
  /\ pc = "compile"
  /\ \E r \in RegTriples, h \in Hints :
       Compile("subfex", XO(r, FALSE, FALSE), h, subfex(Enter(h), XO(r, FALSE, FALSE)))

NextCarryIn == CarryIn_addex \/ CarryIn_subfex \/ Dispatch

SpecCarryIn == InitCarryIn /\ [][NextCarryIn]_vars

\* --------------------------------------------- one shift on every amount
ShiftSrcs == {Zero, One, MaxPos32, SignBit32, {0, 31}, {4, 31}, {30}, AllOnes32}
\* rB: 0, 1, 31, 32, 33, 63, 64, 80, 0xFFFFFFFF
ShiftAmounts == {Zero, One, 0..4, {5}, {0, 5}, 0..5, {6}, {4, 6}, AllOnes32}
ShiftKinds == {<<"Imm", "Imm">>, <<"Imm", "Reg">>, <<"Reg", "Imm">>, <<"Reg", "Reg">>,
               <<"Mem", "Mem">>}

InitShift ==
  /\ \E k \in ShiftKinds, s \in ShiftSrcs, b \in ShiftAmounts :
       m = Machine(k, <<s, b>>, Zero, MaxFreeRegs)
  /\ pre = m
  /\ post = m
  /\ hist = <<>>
  /\ cur = NoInst
  /\ pc = "compile"

Shift_srawix ==
  /\ hist = <<>>
  /\ pc = "compile"
  /\ \E r \in RegTriples, sh \in 0..31, h \in Hints :
       Compile("srawix", XS(r, FALSE, sh), h, srawix(Enter(h), XS(r, FALSE, sh)))
Shift_srawx ==
  /\ hist = <<>>
  /\ pc = "compile"
  /\ \E r \in RegTriples, h \in Hints :
       Compile("srawx", XS(r, FALSE, 0), h, srawx(Enter(h), XS(r, FALSE, 0)))
Shift_slwx ==
  /\ hist = <<>>
  /\ pc = "compile"
  /\ \E r \in RegTriples, rc \in BOOLEAN, h \in Hints :
       Compile("slwx", XS(r, rc, 0), h, slwx(Enter(h), XS(r, rc, 0)))
Shift_srwx ==
  /\ hist = <<>>
  /\ pc = "compile"
  /\ \E r \in RegTriples, rc \in BOOLEAN, h \in Hints :
       Compile("srwx", XS(r, rc, 0), h, srwx(Enter(h), XS(r, rc, 0)))

NextShift == Shift_srawix \/ Shift_srawx \/ Shift_slwx \/ Shift_srwx \/ Dispatch

SpecShift == InitShift /\ [][NextShift]_vars

\* ------------------------------------------------- one signed division
\* 0, 1, 7, 0x7FFFFFFF, 0x80000000, -7, -1
Dividends == {Zero, One, {0, 1, 2}, MaxPos32, SignBit32, B32 \ {1, 2}, AllOnes32}
\* 0, 1, 2, 0x7FFFFFFF, 0x80000000, -2, -1
Divisors == {Zero, One, {1}, MaxPos32, SignBit32, 1..31, AllOnes32}
DivKinds == {<<"Imm", "Imm">>, <<"Imm", "Reg">>, <<"Reg", "Imm">>, <<"Reg", "Reg">>,
             <<"Mem", "Mem">>}

InitDiv ==
  /\ \E k \in DivKinds, a \in Dividends, b \in Divisors, ca \in {Zero, One} :
       m = Machine(k, <<a, b>>, ca, MaxFreeRegs)
  /\ pre = m
  /\ post = m
  /\ hist = <<>>
  /\ cur = NoInst
  /\ pc = "compile"

Div_divwx ==
  /\ hist = <<>>
  /\ pc = "compile"
  /\ \E r \in RegTriples, rc \in BOOLEAN, h \in Hints :
       Compile("divwx", XO(r, rc, FALSE), h, divwx(Enter(h), XO(r, rc, FALSE)))

NextDiv == Div_divwx \/ Dispatch

SpecDiv == InitDiv /\ [][NextDiv]_vars

\* --------------------------------------- one rlwimix on every SH, MB, ME
\* rS = 0x86C3C219 with rA = 0x5A5AA5A5, and rS = 0xFFFFFFFF with rA = 0
InsCases == {<<"Imm", "Imm", 1>>, <<"Imm", "Reg", 1>>, <<"Reg", "Imm", 1>>,
             <<"Reg", "Reg", 1>>, <<"Mem", "Mem", 2>>}
InsValues(n) ==
  IF n = 1
  THEN <<{0, 3, 4, 9, 14, 15, 16, 17, 22, 23, 25, 26, 31},
         {0, 2, 5, 7, 8, 10, 13, 15, 17, 19, 20, 22, 25, 27, 28, 30}>>
  ELSE <<AllOnes32, Zero>>

InitIns ==
  /\ \E c \in InsCases :
       m = Machine(<<c[1], c[2]>>, InsValues(c[3]), Zero, MaxFreeRegs)
  /\ pre = m
  /\ post = m
  /\ hist = <<>>
  /\ cur = NoInst
  /\ pc = "compile"

Ins_rlwimix ==
  /\ hist = <<>>
  /\ pc = "compile"
  /\ \E a \in Regs, sh \in Fields, mb \in Fields, me \in Fields :
       Compile("rlwimix", MF(0, a, sh, mb, me), HintCmp,
             rlwimix(Enter(HintCmp), MF(0, a, sh, mb, me)))

NextIns == Ins_rlwimix \/ Dispatch

SpecIns == InitIns /\ [][NextIns]_vars

\* ------------------------------------ one condition-register update
RC0Vals == {Zero, One, {30}, MaxPos32, SignBit32, {0, 31}, {4, 31}, 16..31, 1..31, AllOnes32}
\* CR field 0 not yet bound, or bound and holding the previous value
RC0Fields == {Slot("Mem", Zero), Slot("Reg", Zero), Slot("Reg", 31..63), Slot("Reg", B64)}

InitRC0 ==
  /\ \E k \in {"Imm", "Reg"}, v \in RC0Vals, f \in RC0Fields, g \in {Zero, Garbage} :
       m = [Machine(<<k, "Mem">>, <<v, Zero>>, Zero, MaxFreeRegs)
              EXCEPT !.cr = f, !.stale = g]
  /\ pre = m
  /\ post = m
  /\ hist = <<>>
  /\ cur = NoInst
  /\ pc = "compile"

\* ComputeRC0(u64 imm) on the immediate result in slot 0
RC0_ComputeRC0_imm ==
  /\ hist = <<>>
  /\ pc = "compile"
  /\ IsImm(m, 0)
  /\ Compile("ComputeRC0_imm", NoInst, HintCmp,
             ComputeRC0_imm(Enter(HintCmp), GetImm(m, 0)))
\* ComputeRC0(ARM64Reg reg) on the host register of slot 0
RC0_ComputeRC0_reg ==
  /\ hist = <<>>
  /\ pc = "compile"
  /\ ~IsImm(m, 0)
  /\ Compile("ComputeRC0_reg", NoInst, HintCmp,
             ComputeRC0_reg(Enter(HintCmp), G(0)))

NextRC0 == RC0_ComputeRC0_imm \/ RC0_ComputeRC0_reg \/ Dispatch

SpecRC0 == InitRC0 /\ [][NextRC0]_vars

\* ------------------------------------------ one floating-point compare
\* +0, -0, the smallest denormal, 1.0, -1.0, 2.0, +inf, a quiet NaN
CmpDoubles == {Zero, {63}, {0}, 52..61, (52..61) \cup {63}, {62}, 52..62, 51..62}
\* FPSCR on entry: clear, all ones, the FPRF field alone, scattered bits
FPSCRVals == {Zero, AllOnes32, 12..16, {0, 11, 13, 16, 17, 31}}

InitFcmp ==
  /\ \E x \in CmpDoubles, y \in CmpDoubles, f \in FPSCRVals, e \in BOOLEAN, w \in BOOLEAN,
        single \in BOOLEAN :
       m = [Machine(<<"Mem", "Mem">>, <<Zero, Zero>>, Zero, MaxFreeRegs)
              EXCEPT !.fval = [i \in Regs |-> IF i = 0 THEN <<x, Zero>> ELSE <<y, Zero>>],
                     !.fpr = [i \in Regs |-> [t |-> "Reg", single |-> single]],
                     !.fpscr = f, !.bFPRF = e, !.wantsFPRF = w]
  /\ pre = m
  /\ post = m
  /\ hist = <<>>
  /\ cur = NoInst
  /\ pc = "compile"

Fcmp_fcmpX ==
  /\ hist = <<>>
  /\ pc = "compile"
  /\ \E a \in Regs, b \in Regs :
       Compile("fcmpX", [NoInst EXCEPT !.FA = a, !.FB = b, !.OPCD = 63], HintCmp,
               fcmpX([Enter(HintCmp) EXCEPT !.wantsFPRF = m.wantsFPRF],
                     [NoInst EXCEPT !.FA = a, !.FB = b, !.OPCD = 63]))

NextFcmp == Fcmp_fcmpX \/ Dispatch

SpecFcmp == InitFcmp /\ [][NextFcmp]_vars

\* ---------------------------------------------------------------- properties
Last(q) == q[Len(q)]
Ran == hist # <<>>
Ops(x) == {x.code[k].op : k \in DOMAIN x.code}
ConstantStates == {ConstantTrue, ConstantFalse}

\* the carry a tracker state denotes
LogicalCarry(x) ==
  CASE x.carryFlag = InPPCState -> x.xer_ca # Zero
    [] x.carryFlag = InHostCarry -> x.nzc.c
    [] x.carryFlag = ConstantTrue -> TRUE
    [] x.carryFlag = ConstantFalse -> FALSE
CarryByte(x) == IF x.carryFlag = InPPCState THEN x.xer_ca ELSE Bit(LogicalCarry(x), 0)

\* guest value of register i
GV(x, i) == Trunc32(x.gpr[i].v)

\* carry-out the architecture defines for the instruction, from the guest
\* state x on entry
ArchCarry(name, x, inst) ==
  LET A == GV(x, inst.RA)
      B == GV(x, inst.RB)
      S == GV(x, inst.RS)
      cin == LogicalCarry(x)
      sraw(n) == IF n >= 32 THEN 31 \in S
                 ELSE 31 \in S /\ (S \cap {k \in B32 : k < n}) # {}
  IN  CASE name = "addcx" -> Add32(A, B, FALSE).c
        [] name = "addic" -> Add32(A, inst.SIMM_16, FALSE).c
        [] name = "subfcx" -> Add32(Not32(A), B, TRUE).c
        [] name = "subfic" -> Add32(Not32(A), inst.SIMM_16, TRUE).c
        [] name = "addex" -> Add32(A, B, cin).c
        [] name = "subfex" -> Add32(Not32(A), B, cin).c
        [] name = "addzex" -> Add32(A, Zero, cin).c
        [] name = "subfzex" -> Add32(Not32(A), Zero, cin).c
        [] name = "srawix" -> sraw(inst.SH)
        [] name = "srawx" -> sraw(Low6(B))
ArchCA == ArchCarry(Last(hist), pre, cur)

\* host instructions that write the condition flags
FlagSetting == {"CMP", "CMN", "TST", "ANDS", "ADDS", "SUBS", "ADCS", "NEGS", "ADDSI2R",
                "CCMN", "FCMP", "BL"}
\* host instructions that compute a translator's result
Arithmetic == {"ADD", "ADDS", "ADC", "ADCS", "SUB", "SUBS", "NEG", "NEGS", "MVN", "MOV",
               "ADDI2R", "ADDSI2R"}

\* ---- C1
\* the consumer that ran last, run instead after a FlushCarry
Flushed == Apply(Last(hist), FlushCarry(pre), cur)
SameDest(x, y) == x.gpr = y.gpr /\ x.cr = y.cr
ProducerThenConsumer ==
  /\ Len(hist) >= 2
  /\ hist[Len(hist) - 1] \in Producers
  /\ Last(hist) \in Consumers
  /\ pre.carryFlag = InHostCarry

\* C1 as stated: a producer that left the carry in host flags, then a consumer:
\* destination values and logical carry are those of the run with a FlushCarry
\* between the two.
C1_Original ==
  ProducerThenConsumer =>
    SameDest(post, Flushed) /\ LogicalCarry(post) = LogicalCarry(Flushed)

\* C1: carry transparency.  After a producer that left the carry in host flags,
\* a consumer yields the same register values as it does after a FlushCarry, and
\* the same logical carry whenever its own carry-out is wanted (wantsCA).
C1_CarryTransparency ==
  ProducerThenConsumer =>
    /\ SameDest(post, Flushed)
    /\ pre.wantsCA => LogicalCarry(post) = LogicalCarry(Flushed)

C1_Witness ==
  /\ ProducerThenConsumer
  /\ pre.wantsCA
  /\ pre.nzc.c
  /\ post.carryFlag = InHostCarry
  /\ Flushed.carryFlag = InHostCarry
  /\ "LDRB xer_ca" \in Ops(Flushed)
  /\ "LDRB xer_ca" \notin Ops(post)
  /\ SameDest(post, Flushed)

\* ---- C2
FlushNormalizes(x) ==
  LET f == FlushCarry(x)
  IN  /\ f.carryFlag = InPPCState
      /\ f.xer_ca = CarryByte(x)
      /\ x.carryFlag = InPPCState => f = x
      /\ FlushCarry(f) = f

\* C2: FlushCarry from any of the four tracker states leaves InPPCState with
\* xer_ca equal to the carry the state denoted; from InPPCState it emits nothing
\* and changes nothing, so a second FlushCarry is a no-op.  Stated of a flush at
\* every reachable point and of the flush the block loop ran.
C2_FlushCarryNormalizes ==
  /\ FlushNormalizes(m)
  /\ pc = "done" =>
       /\ m.carryFlag = InPPCState
       /\ m.xer_ca = CarryByte(post)
       /\ post.carryFlag = InPPCState => m = post
       /\ FlushCarry(m) = m

C2_Witness ==
  /\ pc = "done"
  /\ post.carryFlag = InHostCarry
  /\ post.nzc.c
  /\ post.xer_ca = Zero
  /\ m.xer_ca = One
  /\ m.carryFlag = InPPCState

\* ---- C3
AfterProducer == Ran /\ Last(hist) \in Producers
NoFlagWritten(x) == \A k \in DOMAIN x.code : x.code[k].op \notin FlagSetting
\* the translator returned the host-flag carry it was entered with
Inherited ==
  pre.carryFlag = InHostCarry /\ post.nzc = pre.nzc /\ NoFlagWritten(post)

C4_HostCarryNotClobbered ==
  Ran =>
    \A k \in DOMAIN post.code :
      post.code[k].op \in FlagSetting /\ post.code[k].cf = InHostCarry =>
        \/ post.code[k].op = "ADCS"
        \/ Last(hist) \in Producers /\ pre.wantsCA

\* divwx entered with the carry in host flags: flushed, then compared
C4_Witness ==
  /\ Ran
  /\ Last(hist) = "divwx"
  /\ pre.carryFlag = InHostCarry
  /\ pre.nzc.c
  /\ "CMP" \in Ops(post)
  /\ post.xer_ca = One
  /\ pre.xer_ca = Zero

\* ---- C5
TieBreakOps == {"addcx", "addic", "subfcx", "subfic", "addex", "subfex", "srawx", "srawix"}
AllImmediate ==
  /\ Ran
  /\ Last(hist) \in TieBreakOps
  /\ CASE Last(hist) \in {"addcx", "subfcx", "addex", "subfex"} ->
            IsImm(pre, cur.RA) /\ IsImm(pre, cur.RB)
       [] Last(hist) \in {"addic", "subfic"} -> IsImm(pre, cur.RA)
       [] Last(hist) = "srawx" -> IsImm(pre, cur.RS) /\ IsImm(pre, cur.RB)
       [] Last(hist) = "srawix" -> IsImm(pre, cur.RS)
NoFlagCode(x) ==
  \A k \in DOMAIN x.code : x.code[k].op \notin FlagSetting \cup {"STRB xer_ca"}
\* addex / subfex whose operand sum is 0xFFFFFFFF: the carry-out is the carry-in
CarryPassesThrough ==
  \/ Last(hist) = "addex" /\ Add32(GV(pre, cur.RA), GV(pre, cur.RB), FALSE).v = AllOnes32
  \/ Last(hist) = "subfex"
       /\ Add32(Not32(GV(pre, cur.RA)), GV(pre, cur.RB), FALSE).v = AllOnes32

\* C5 as stated: with all register operands immediate every producer ends in
\* ConstantTrue / ConstantFalse equal to the architectural carry-out and emits
\* no store to xer_ca and no flag-setting instruction.
C5_Original ==
  AllImmediate =>
    /\ post.carryFlag \in ConstantStates
    /\ LogicalCarry(post) = ArchCA
    /\ NoFlagCode(post)

\* C5: tie-break rule.  With all register operands immediate a producer ends
\* in the constant state equal to the architectural carry-out and emits no
\* store to xer_ca and no flag-setting instruction; addex and subfex whose
\* operand sum is 0xFFFFFFFF leave the tracker as it was on entry instead,
\* which still denotes the carry-out.
C5_TieBreak ==
  AllImmediate =>
    /\ IF CarryPassesThrough
       THEN post.carryFlag = pre.carryFlag
       ELSE post.carryFlag \in ConstantStates
    /\ LogicalCarry(post) = ArchCA
    /\ NoFlagCode(post)

C5_Witness ==
  /\ AllImmediate
  /\ Last(hist) = "subfcx"
  /\ post.carryFlag = ConstantTrue
  /\ ArchCA
  /\ post.code = <<>>

\* ---- C6
FoldCase ==
  /\ Ran
  /\ Last(hist) = "addex"
  /\ ~cur.OE
  /\ IsImm(pre, cur.RA) /\ IsImm(pre, cur.RB)
  /\ pre.carryFlag \in ConstantStates
FoldSum == Add32(GetImm(pre, cur.RA), GetImm(pre, cur.RB), pre.carryFlag = ConstantTrue).v

\* C6 as stated: addex with immediate operands and a constant carry-in makes
\* the destination Immediate(i + j + carry_in), the tracker the constant
\* carry-out, and emits no host instruction.
C6_Original ==
  FoldCase =>
    /\ post.gpr[cur.RD] = Slot("Imm", FoldSum)
    /\ post.carryFlag \in ConstantStates
    /\ LogicalCarry(post) = ArchCA
    /\ post.code = <<>>

\* C6: addex with immediate operands and a constant carry-in computes
\* i + j + carry_in and the constant carry-out at translation time.  With Rc
\* clear the destination stays an immediate and nothing is emitted but a spill
\* the allocator needs to bind the destination; with Rc set the destination is
\* materialised in a host register for the SXTW into CR0.
C6_AddexFolds ==
  FoldCase =>
    /\ GV(post, cur.RD) = FoldSum
    /\ post.carryFlag \in ConstantStates
    /\ LogicalCarry(post) = ArchCA
    /\ ~cur.Rc => /\ post.gpr[cur.RD] = Slot("Imm", FoldSum)
                  /\ Ops(post) \subseteq {"STR spill"}
    /\ cur.Rc => /\ post.gpr[cur.RD].t = "Reg"
                 /\ "SXTW" \in Ops(post)
                 /\ post.cr.v = SExt32(FoldSum)

\* carry-in false, 0xFFFFFFFF + 1: result 0, carry-out true, no code
C6_Witness ==
  /\ FoldCase
  /\ ~cur.Rc
  /\ pre.carryFlag = ConstantFalse
  /\ GetImm(pre, cur.RA) = AllOnes32
  /\ GetImm(pre, cur.RB) = One
  /\ post.gpr[cur.RD] = Slot("Imm", Zero)
  /\ post.carryFlag = ConstantTrue
  /\ post.code = <<>>

\* ---- C7
ConstantCarryIn ==
  /\ Ran
  /\ Last(hist) \in Consumers
  /\ pre.carryFlag \in ConstantStates

\* C7: a consumer entered with a constant carry emits no load of xer_ca, emits
\* its arithmetic while the tracker is not InPPCState, and stores to xer_ca
\* only the carry-out: after the arithmetic, from InHostCarry.
C7_ConstantCarryStaysOutOfMemory ==
  ConstantCarryIn =>
    /\ "LDRB xer_ca" \notin Ops(post)
    /\ \A k \in DOMAIN post.code :
         /\ post.code[k].op \in Arithmetic => post.code[k].cf # InPPCState
         /\ post.code[k].op = "STRB xer_ca" =>
              /\ post.code[k].cf = InHostCarry
              /\ \E j \in 1..(k - 1) : post.code[j].op \in Arithmetic
    /\ post.xer_ca # pre.xer_ca => post.xer_ca = Bit(ArchCA, 0)

\* a statically true carry folded into a subtraction and the carry-out stored
C7_Witness ==
  /\ ConstantCarryIn
  /\ Last(hist) = "subfex"
  /\ pre.carryFlag = ConstantTrue
  /\ "SUBS" \in Ops(post)
  /\ "STRB xer_ca" \in Ops(post)
  /\ post.carryFlag = InPPCState

\* ------------------------------------------------------------------- C8
\* the instruction just handed to a translator was declared untranslatable
Declared ==
  /\ Ran
  /\ \/ Last(hist) \in IntegerOps /\ pre.bJITIntegerOff
     \/ Last(hist) \in FloatingPoint /\ pre.bJITFloatingPointOff
     \/ Last(hist) \in IntegerOE /\ cur.OE
     \/ Last(hist) \in FloatingPoint \ {"fcmpX"} /\ cur.Rc

\* C8: when the instruction is declared untranslatable (its JIT class is
\* disabled, OE is set for a translator of IntegerOE, Rc is set for a
\* floating-point translator other than fcmpX), the translator returns
\* with no host instruction emitted and with the allocator bindings, the
\* locked registers and the carry tracker as they were on entry.
C8_FallbackAllOrNothing ==
  Declared =>
    /\ post.code = <<>>
    /\ post.gpr = pre.gpr /\ post.cr = pre.cr /\ post.fpr = pre.fpr
    /\ post.locked = pre.locked /\ post.free = pre.free
    /\ post.carryFlag = pre.carryFlag
    /\ post = pre

\* negx with OE set, entered with the carry live in the host flags
C8_Witness ==
  /\ Declared
  /\ Last(hist) = "negx" /\ cur.OE /\ ~pre.bJITIntegerOff
  /\ pre.carryFlag = InHostCarry
  /\ ~IsImm(pre, cur.RA)
  /\ post = pre

\* ------------------------------------------------------------------- C9
SignedCompares == {"cmp", "cmpi"}
UnsignedCompares == {"cmpl", "cmpli"}
\* the 32-bit operands of the compare, from the guest state on entry
OperandA == GV(pre, cur.RA)
OperandB ==
  CASE Last(hist) = "cmp" -> GV(pre, cur.RB)
    [] Last(hist) = "cmpl" -> GV(pre, cur.RB)
    [] Last(hist) = "cmpi" -> cur.SIMM_16
    [] Last(hist) = "cmpli" -> cur.UIMM
Translated == Ran /\ ~pre.bJITIntegerOff
GuestRegsKept == \A i \in Regs : GV(post, i) = GV(pre, i)

\* C9: cmp and cmpi leave in the bound condition-register field the 64-bit
\* value sext32(A) - sext32(B); it is negative iff A < B signed, zero iff
\* A = B and positive iff A > B, on the immediate-folded path, the
\* compare-with-zero shortcut and the register path alike.
C9_SignedCompare ==
  Translated /\ Last(hist) \in SignedCompares =>
    /\ post.cr.t = "Reg"
    /\ post.cr.v = Sub64(SExt32(OperandA), SExt32(OperandB)).v
    /\ 63 \in post.cr.v <=> SLt(OperandA, OperandB)
    /\ post.cr.v = Zero <=> OperandA = OperandB
    /\ (63 \notin post.cr.v /\ post.cr.v # Zero) <=> SLt(OperandB, OperandA)
    /\ GuestRegsKept

\* cmpi of a register holding 0x80000000 with immediate 0 reports less-than
C9_Witness ==
  /\ Translated
  /\ Last(hist) = "cmpi"
  /\ pre.gpr[cur.RA] = Slot("Reg", SignBit32)
  /\ cur.SIMM_16 = Zero
  /\ 63 \in post.cr.v

\* ------------------------------------------------------------------ C10
\* C10: cmpl and cmpli leave in the bound condition-register field the
\* 64-bit value zext32(A) - zext32(B) mod 2^64; it is negative iff A < B
\* unsigned, zero iff A = B and positive iff A > B, on the immediate-folded
\* path, the compare-with-zero shortcut and the 64-bit register path alike.
C10_UnsignedCompare ==
  Translated /\ Last(hist) \in UnsignedCompares =>
    /\ post.cr.t = "Reg"
    /\ post.cr.v = Sub64(OperandA, OperandB).v
    /\ 63 \in post.cr.v <=> ULt(OperandA, OperandB)
    /\ post.cr.v = Zero <=> OperandA = OperandB
    /\ (63 \notin post.cr.v /\ post.cr.v # Zero) <=> ULt(OperandB, OperandA)
    /\ GuestRegsKept

\* cmpl on the register path, of a register that slwx has just shifted to 0
C10_Witness ==
  /\ Len(hist) = 2 /\ hist[1] = "slwx" /\ Last(hist) = "cmpl"
  /\ pre.gpr[cur.RA].t = "Reg" /\ pre.gpr[cur.RB].t = "Reg"
  /\ OperandA = Zero /\ OperandB # Zero
  /\ 63 \in post.cr.v
  /\ post.code = <<[op |-> "SUB", cf |-> pre.carryFlag]>>

\* ------------------------------------------------------------------ C11
CarryArith == {"addcx", "addic", "subfcx", "subfic"}
\* the entry state with every guest register an immediate / bound to a register
AsImm(x) == [x EXCEPT !.gpr = [i \in Regs |-> Slot("Imm", GV(x, i))]]
AsReg(x) == [x EXCEPT !.gpr = [i \in Regs |-> Slot("Reg", GV(x, i))]]
ImmPath == Apply(Last(hist), AsImm(pre), cur)
RegPath == Apply(Last(hist), AsReg(pre), cur)
\* second operand: rB, or the immediate of the D form
ArithB == IF Last(hist) \in {"addcx", "subfcx"} THEN GV(pre, cur.RB) ELSE cur.SIMM_16
\* reference result and carry-out: a + b, resp. b - a = ~a + b + 1
RefSum ==
  IF Last(hist) \in {"addcx", "addic"}
  THEN Add32(GV(pre, cur.RA), ArithB, FALSE)
  ELSE Add32(Not32(GV(pre, cur.RA)), ArithB, TRUE)
\* the two paths are the folded one and the emitted one, and agree on the result
PathsAgree ==
  /\ ImmPath.gpr[cur.RD] = Slot("Imm", RefSum.v)
  /\ ImmPath.code = <<>>
  /\ RegPath.gpr[cur.RD].t = "Reg"
  /\ Ops(RegPath) \cap {"ADD", "ADDS", "SUB", "SUBS", "ADDI2R", "ADDSI2R"} # {}
  /\ GV(RegPath, cur.RD) = RefSum.v
  /\ LogicalCarry(ImmPath) = RefSum.c
  /\ Last(hist) \in {"subfcx", "subfic"} =>
       /\ RefSum.c <=> ~ULt(ArithB, GV(pre, cur.RA))
       /\ RefSum.c <=> (GV(pre, cur.RA) = Zero
                         \/ Helper_Carry(ArithB, Neg32(GV(pre, cur.RA))))

\* C11 as stated: for addcx, addic, subfcx and subfic the folded path and the
\* register path give the same result and the same carry-out.
C11_Original ==
  Ran /\ Last(hist) \in CarryArith =>
    PathsAgree /\ LogicalCarry(RegPath) = RefSum.c

\* C11: for addcx, addic, subfcx and subfic the folded path and the register
\* path give the same 32-bit result, a + b resp. b - a; the folded path records
\* the carry-out (a + b >= 2^32, resp. a = 0 or Helper_Carry(b, 0 - a), which
\* is b >= a unsigned) and the register path leaves the same carry-out
\* whenever the carry is wanted (wantsCA).
C11_FoldedEqualsEmitted ==
  Ran /\ Last(hist) \in CarryArith =>
    /\ PathsAgree
    /\ pre.wantsCA => LogicalCarry(RegPath) = RefSum.c
    /\ GV(post, cur.RD) = RefSum.v
    /\ pre.wantsCA => LogicalCarry(post) = RefSum.c

\* subfcx with a = 0: carry-out set on both paths, in the host flag on the
\* register path
C11_Witness ==
  /\ Ran /\ Last(hist) = "subfcx"
  /\ GV(pre, cur.RA) = Zero /\ GV(pre, cur.RB) = SignBit32
  /\ pre.wantsCA
  /\ ImmPath.carryFlag = ConstantTrue
  /\ RegPath.carryFlag = InHostCarry /\ RegPath.nzc.c
  /\ GV(RegPath, cur.RD) = SignBit32

\* ------------------------------------------------------------------ C12
\* the architectural mask: guest bits MB..ME, numbered from the top, wrapping
ArchMask(mb, me) ==
  {31 - i : i \in IF mb <= me THEN mb..me ELSE (0..me) \cup (mb..31)}
\* the generic form run on the bound source
Generic == rlwinmx_rotate(R(BindToRegister(pre, cur.RA, cur.RA = cur.RS), cur.RS),
                          cur.RA, cur.RS, cur.SH, MakeRotationMask(cur.MB, cur.ME))
RotCase == Ran /\ Last(hist) = "rlwinmx" /\ pc = "dispatch"
Special == {"MOV", "ANDI2R", "UBFX", "UBFIZ"}

\* C12: every special case of rlwinmx (plain move, AND-immediate, UBFX, UBFIZ)
\* leaves RotateLeft(s, SH) & MakeRotationMask(MB, ME) in rA, as the generic
\* form and the folded form do, for SH, MB, ME in 0..31, and the bit fields
\* of UBFX and UBFIZ lie inside the 32-bit register.
C12_RlwinmxSpecialCases ==
  RotCase =>
    /\ ~post.fault
    /\ MakeRotationMask(cur.MB, cur.ME) = ArchMask(cur.MB, cur.ME)
    /\ GV(post, cur.RA) = RotateLeft(GV(pre, cur.RS), cur.SH) \cap ArchMask(cur.MB, cur.ME)
    /\ post.gpr[cur.RA].v \subseteq 0..31
    /\ ~IsImm(pre, cur.RS) =>
         \* the rotated operand of the generic form takes amounts 1..31
         /\ cur.SH # 0 => ~Generic.fault /\ GV(post, cur.RA) = GV(Generic, cur.RA)
         /\ Ops(post) \cap Special # {} => Ops(post) \cap {"AND", "MOVI2R"} = {}
         /\ "ANDI2R" \in Ops(post) => cur.SH = 0
         /\ "UBFX" \in Ops(post) =>
              cur.ME = 31 /\ cur.SH + cur.MB > 31 /\ (32 - cur.SH) + (32 - cur.MB) <= 32
         /\ "UBFIZ" \in Ops(post) =>
              cur.ME = 31 - cur.SH /\ cur.SH + cur.MB < 32
                /\ cur.SH + (32 - cur.SH - cur.MB) <= 32

\* a bit select of the upper part: rlwinm rA, rS, 24, 28, 31 on 0x86C3C219
C12_Witness ==
  /\ RotCase /\ ~IsImm(pre, cur.RS)
  /\ cur.SH = 24 /\ cur.MB = 28 /\ cur.ME = 31 /\ cur.RA = 1
  /\ Ops(post) = {"UBFX"}
  /\ GV(pre, cur.RS) # AllOnes32
  /\ GV(post, cur.RA) = {1}

\* ------------------------------------------------------------------ C13
\* reference: the low 28 bits cleared, plus the rounding bit doubled
Ref25(x) == Add64(x \ (0..27), IF 27 \in x THEN {28} ELSE {}, FALSE).v
Rounded == Ran /\ Last(hist) = "fp_arith" /\ "BIC" \in Ops(post)

\* C13: Force25BitPrecision leaves (input & 0xFFFFFFFFF8000000) +
\* (input & 0x0000000008000000) in its output, which is the input with the low
\* 28 bits cleared plus ((input & 2^27) << 1), carries included, in every lane
\* of the register; the constants it builds are exactly 0x0000000008000000
\* and 0xFFFFFFFFF8000000.
C13_Force25BitPrecision ==
  Rounded =>
    LET in == pre.fval[cur.FC]
        out == post.vreg["V0"]
    IN  /\ Force25Lane(in[1]).round = {27}
        /\ Force25Lane(in[1]).mask = 27..63
        /\ out[1] = Add64(in[1] \cap (27..63), in[1] \cap {27}, FALSE).v
        /\ out[1] = Ref25(in[1])
        /\ out[2] = IF cur.OPCD = 4 THEN Ref25(in[2]) ELSE Zero
        /\ post.vreg["V1"][1] = in[1] \cap {27}

\* the rounding carries out of the mantissa into the exponent
C13_Witness ==
  /\ Rounded
  /\ pre.fval[cur.FC][1] = 27..51
  /\ post.vreg["V0"][1] = {52}
  /\ cur.OPCD = 4 /\ pre.fval[cur.FC][2] = 27..63 /\ post.vreg["V0"][2] = Zero

\* ------------------------------------------------------------------ C14
UsesC == cur.SUBOP5 \in {25, 28, 29, 30, 31}
OutputsSingles == cur.OPCD \in {59, 4}
AsSingles(x) ==
  /\ IsSingle(x, cur.FA)
  /\ cur.SUBOP5 # 25 => IsSingle(x, cur.FB)
  /\ UsesC => IsSingle(x, cur.FC)

Called(name) == Ran /\ Last(hist) = name /\ pc = "dispatch"
SrcLo == Trunc32(pre.vreg[cur.src_reg][1])
SrcHi == Lsr(pre.vreg[cur.src_reg][1], 32)
HasScratch == cur.scratch_reg # INVALID_REG

LaneMasks == {Zero, 0..31, 32..63, B64}

\* C16: the detector of ConvertSingleToDoublePair takes the fast path exactly
\* when the magnitude of both lanes compares greater than zero: of the four
\* masks 00..00, 00..FF, FF..00, FF..FF the copy of byte 0 into byte 7 leaves
\* a 64-bit NaN only for FF..FF.
C16_BothLanesAboveZero ==
  Called("ConvertSingleToDoublePair") =>
    /\ \A k \in LaneMasks : IsNaN64(INS_8_7_0(k)) <=> k = B64
    /\ post.wrote \in {<<"native">>, <<"cstd", "cstd">>}
    /\ ~pre.fpr_is_store_safe /\ HasScratch =>
         /\ post.vreg[cur.scratch_reg][1] \in {INS_8_7_0(k) : k \in LaneMasks}
         /\ post.wrote = <<"native">> <=>
              (MagnitudeAboveZero(SrcLo, pre.fz) /\ MagnitudeAboveZero(SrcHi, pre.fz))
    /\ ~pre.fpr_is_store_safe /\ ~HasScratch => post.wrote = <<"cstd", "cstd">>
    /\ post.skip = "" /\ ~post.fault

\* the lower lane is zero, the upper lane is a number: the mask FF..00 is not
\* taken for a NaN and the reference routine runs
C16_Witness ==
  /\ Called("ConvertSingleToDoublePair")
  /\ ~pre.fpr_is_store_safe /\ HasScratch
  /\ SrcLo = Zero /\ SrcHi = 23..29
  /\ post.vreg[cur.scratch_reg][1] = 32..55
  /\ post.wrote = <<"cstd", "cstd">>

\* ------------------------------------------------------------------ C17
Src == pre.vreg[cur.src_reg]
Dest == post.vreg[cur.dest_reg]

\* C17: the conversions are bit-exact on both paths for zeros, smallest and
\* largest denormals, smallest and largest normals, quiet and signaling NaNs
\* and infinities: whatever path ran, the destination holds what the
\* reference routine gives, in every lane.
C17_BitExact ==
  /\ Called("ConvertSingleToDoubleLower") => Dest = <<ConvertToDouble(SrcLo), Zero>>
  /\ Called("ConvertSingleToDoublePair") =>
       Dest = <<ConvertToDouble(SrcLo), ConvertToDouble(SrcHi)>>
  /\ Called("ConvertDoubleToSingleLower") => Dest = <<ConvertToSingle(Src[1]), Zero>>
  /\ Called("ConvertDoubleToSinglePair") =>
       Dest = <<ConvertToSingle(Src[1]) \cup Lsl(ConvertToSingle(Src[2]), 32, 64), Zero>>

\* the largest denormal and 1.0, converted natively in place with denormals
\* not flushed
C17_Witness ==
  /\ Called("ConvertSingleToDoublePair")
  /\ post.wrote = <<"native">> /\ ~pre.fpr_is_store_safe /\ cur.dest_reg = cur.src_reg
  /\ SrcLo = 0..22 /\ SrcHi = 23..29
  /\ Dest = <<(30..51) \cup (59..61), 52..61>>

\* ------------------------------------------------------------------ C18
Helpers == {"ConvertSingleToDoubleLower", "ConvertSingleToDoublePair",
            "ConvertDoubleToSingleLower", "ConvertDoubleToSinglePair"}
ToSingle == {"ConvertDoubleToSingleLower", "ConvertDoubleToSinglePair"}
Pairs == {"ConvertSingleToDoublePair", "ConvertDoubleToSinglePair"}
Routine == IF Last(hist) \in ToSingle THEN "cdts" ELSE "cstd"
Saved == pre.used \cap (IF Last(hist) \in ToSingle THEN {0, 1, 2, 3, 30}
                        ELSE {0, 1, 2, 3, 4, 30})
Calls == IF Last(hist) \in Pairs THEN <<<<"call", Routine>>, <<"call", Routine>>>>
         ELSE <<<<"call", Routine>>>>

\* C18: around every call of a conversion routine the caller-saved registers
\* in use are preserved: the slow path flushes the pending carry first,
\* pushes (caller-saved in use) & {0,1,2,3,30} for double-to-single or
\* & {0,1,2,3,4,30} for single-to-double, calls, and pops the same set; the
\* store-safe fast path pushes and pops nothing.
C18_CallerSavedPreserved ==
  Ran /\ Last(hist) \in Helpers /\ pc = "dispatch" =>
    /\ post.clobbered \cap pre.used = {}
    /\ post.stack = <<>> /\ ~post.fault
    /\ LogicalCarry(post) = LogicalCarry(pre)
    /\ pre.fpr_is_store_safe =>
         /\ post.abi = <<>>
         /\ post.clobbered = {}
         /\ post.carryFlag = pre.carryFlag /\ post.nzc = pre.nzc
         /\ Ops(post) \subseteq {"FCVT", "FCVTN", "FCVTL"}
    /\ ~pre.fpr_is_store_safe =>
         /\ post.abi = <<<<"push", Saved>>>> \o Calls \o <<<<"pop", Saved>>>>
         /\ post.carryFlag = InPPCState
         /\ \A k \in DOMAIN post.code :
              post.code[k].op \in {"PUSH", "POP", "BL", "FCMP", "FMOV", "UMOV"}
                => post.code[k].cf = InPPCState

\* a double-to-single call with X1, X2, X3, X30 and X8 in use and the carry in
\* the host flag: the carry is stored, four registers are pushed and popped
C18_Witness ==
  /\ Called("ConvertDoubleToSingleLower")
  /\ ~pre.fpr_is_store_safe /\ pre.carryFlag = InHostCarry
  /\ pre.used = {1, 2, 3, 30, 8}
  /\ post.abi = <<<<"push", {1, 2, 3, 30}>>, <<"call", "cdts">>, <<"pop", {1, 2, 3, 30}>>>>
  /\ post.clobbered = {0}
  /\ post.xer_ca = One

\* ------------------------------------------------------------------ C19
BothImm == IsImm(pre, cur.RA) /\ IsImm(pre, cur.RB)
\* first addend: rA for addex, ~rA for subfex
AddendX == IF Last(hist) = "addex" THEN GV(pre, cur.RA) ELSE Not32(GV(pre, cur.RA))
AddendJ == GV(pre, cur.RB)
FoldedUnknownCarry ==
  /\ Ran /\ Last(hist) \in {"addex", "subfex"} /\ pc = "dispatch"
  /\ BothImm /\ pre.carryFlag \in {InPPCState, InHostCarry}

\* C19: addex and subfex with both operands immediate and the carry-in in
\* xer_ca or in the host flag leave x + j + carry_in (x = i, resp. ~i) and a
\* tracker that denotes the carry-out for both values of the carry-in:
\* ConstantTrue when x + j overflows, the unchanged carry-in state when
\* x + j = 0xFFFFFFFF, ConstantFalse otherwise.
C19_FoldedWithUnknownCarry ==
  FoldedUnknownCarry =>
    /\ GV(post, cur.RD) = Add32(AddendX, AddendJ, LogicalCarry(pre)).v
    /\ LogicalCarry(post) = Add32(AddendX, AddendJ, LogicalCarry(pre)).c
    /\ post.carryFlag =
         IF Add32(AddendX, AddendJ, FALSE).c THEN ConstantTrue
         ELSE IF Add32(AddendX, AddendJ, FALSE).v = AllOnes32 THEN pre.carryFlag
         ELSE ConstantFalse
    /\ post.carryFlag = ConstantTrue => \A c \in BOOLEAN : Add32(AddendX, AddendJ, c).c
    /\ post.carryFlag = ConstantFalse => \A c \in BOOLEAN : ~Add32(AddendX, AddendJ, c).c
    /\ post.carryFlag \notin ConstantStates =>
         /\ \A c \in BOOLEAN : Add32(AddendX, AddendJ, c).c = c
         /\ post.xer_ca = pre.xer_ca /\ post.nzc = pre.nzc

\* subfex of equal immediates with the carry set in the host flag: ~i + j is
\* 0xFFFFFFFF, the result is 0 and the carry stays in the flag
C19_Witness ==
  /\ FoldedUnknownCarry /\ Last(hist) = "subfex"
  /\ GV(pre, cur.RA) = MaxPos32 /\ GV(pre, cur.RB) = MaxPos32
  /\ pre.carryFlag = InHostCarry /\ pre.nzc.c
  /\ post.carryFlag = InHostCarry /\ post.nzc.c
  /\ GV(post, cur.RD) = Zero

\* ------------------------------------------------------------------ C20
TrueCarryIn ==
  /\ Ran /\ Last(hist) = "addex" /\ pc = "dispatch"
  /\ pre.carryFlag = ConstantTrue /\ ~BothImm
\* the operand that is still an immediate once the destination is bound
ImmAfterBind(i) == IsImm(pre, i) /\ cur.RD # i
SumPlusOne == Add32(GV(pre, cur.RA), GV(pre, cur.RB), TRUE)
SubCases ==
  /\ GV(post, cur.RD) = SumPlusOne.v
  /\ ~post.fault
  /\ post.locked = {}
  \* neither operand immediate: the host carry is set, then ADC
  /\ ~ImmAfterBind(cur.RA) /\ ~ImmAfterBind(cur.RB) =>
       /\ \E k \in DOMAIN post.code : post.code[k] = [op |-> "CMP", cf |-> ConstantTrue]
       /\ Ops(post) \cap {"ADC", "ADCS"} # {}
  \* one immediate
  /\ ImmAfterBind(cur.RA) \/ ImmAfterBind(cur.RB) =>
       LET imm == IF ImmAfterBind(cur.RB) THEN GV(pre, cur.RB) ELSE GV(pre, cur.RA)
       IN  /\ "CMP" \notin Ops(post) /\ Ops(post) \cap {"ADC", "ADCS"} = {}
           /\ imm = AllOnes32 => /\ post.carryFlag = ConstantTrue
                                 /\ Ops(post) \subseteq {"MOV"}
           /\ imm # AllOnes32 => Ops(post) \cap {"ADDI2R", "ADDSI2R"} # {}

\* C20 as stated: addex with carry-in ConstantTrue and not both operands
\* immediate leaves a + b + 1 and the exact carry-out in every sub-case.
C20_Original ==
  TrueCarryIn => SubCases /\ LogicalCarry(post) = SumPlusOne.c

\* C20: addex with carry-in ConstantTrue and not both operands immediate
\* leaves a + b + 1 in every sub-case (host carry set then ADC; add of the
\* incremented immediate; the other operand when the immediate is
\* 0xFFFFFFFF), the ASSERT on the immediate operand does not fire, also when
\* the destination is the immediate operand, and the carry-out is exact when
\* the immediate is 0xFFFFFFFF or the carry is wanted (wantsCA).
C20_TrueCarryIn ==
  TrueCarryIn =>
    /\ SubCases
    /\ (pre.wantsCA \/ post.carryFlag = ConstantTrue) => LogicalCarry(post) = SumPlusOne.c

\* the destination is the immediate operand: it is bound, the carry goes to
\* the host flag and ADCS adds
C20_Witness ==
  /\ TrueCarryIn /\ pre.wantsCA
  /\ IsImm(pre, cur.RA) /\ ~IsImm(pre, cur.RB) /\ cur.RD = cur.RA
  /\ GV(pre, cur.RA) = AllOnes32 /\ GV(pre, cur.RB) = One
  /\ "ADCS" \in Ops(post)
  /\ GV(post, cur.RD) = One /\ LogicalCarry(post)

\* ------------------------------------------------------------------ C21
SarRan == Ran /\ Last(hist) \in {"srawix", "srawx"} /\ pc = "dispatch"
SarSrc == GV(pre, cur.RS)
\* shift amount: SH for srawix, the low 6 bits of rB for srawx
SarAmount == IF Last(hist) = "srawix" THEN cur.SH ELSE Low6(GV(pre, cur.RB))
\* s >> n with the sign filling the vacated bits
SarRef(s, n) == {k \in B32 : IF k + n <= 31 THEN (k + n) \in s ELSE 31 \in s}
\* s negative and a 1 among the n bits shifted out
SarCarry(s, n) == 31 \in s /\ \E k \in s : k < n

\* C21: srawix and srawx leave s >> n (arithmetic, sign fill for n >= 32) on
\* every path, and with wantsCA the carry is (s negative and a 1 bit shifted
\* out): false for n = 0, the sign bit for n >= 32.
C21_ArithmeticRightShift ==
  SarRan =>
    /\ ~post.fault
    /\ GV(post, cur.RA) = SarRef(SarSrc, SarAmount)
    /\ pre.wantsCA => LogicalCarry(post) = SarCarry(SarSrc, SarAmount)
    /\ pre.wantsCA /\ SarAmount = 0 => ~LogicalCarry(post)
    /\ pre.wantsCA /\ SarAmount >= 32 => LogicalCarry(post) = (31 \in SarSrc)

\* srawx in place by 63 (rB = 0xFFFFFFFF in a register) of 0x80000000: all
\* ones and the carry in xer_ca
C21_Witness ==
  /\ SarRan /\ Last(hist) = "srawx" /\ pre.wantsCA
  /\ ~IsImm(pre, cur.RS) /\ ~IsImm(pre, cur.RB) /\ cur.RA = cur.RS
  /\ SarSrc = SignBit32 /\ SarAmount = 63
  /\ GV(post, cur.RA) = AllOnes32 /\ LogicalCarry(post)
  /\ "ASRV" \in Ops(post)

\* ------------------------------------------------------------------ C22
DivRan == Ran /\ Last(hist) = "divwx" /\ pc = "dispatch"
Dividend == GV(pre, cur.RA)
Divisor == GV(pre, cur.RB)
\* the word as a signed number
Signed(x) == (ToNat(x, 30) - (IF 31 \in x THEN 2^30 ELSE 0)) - (IF 31 \in x THEN 2^30 ELSE 0)
Abs(n) == IF n < 0 THEN 0 - n ELSE n
\* q is the quotient of a by b truncated toward zero: a = q * b + r with
\* |r| < |b| and r of the sign of a; stated on the words to stay in range
IsQuotient(q, a, b) ==
  LET r == Sub32(a, Mul32(q, b)).v
  IN  /\ b # SignBit32 =>
           /\ r # SignBit32 /\ Abs(Signed(r)) < Abs(Signed(b))
           /\ r = Zero \/ (31 \in r <=> 31 \in a)
           /\ q = Zero \/ ((31 \in q) <=> ((31 \in a) # (31 \in b)))
      /\ b = SignBit32 => q = (IF a = SignBit32 THEN One ELSE Zero)
DivSpecial == Divisor = Zero \/ (Dividend = SignBit32 /\ Divisor = AllOnes32)
\* the path that loads the immediate divisor and divides without a test
ImmDivisorPath == "SDIV" \in Ops(post) /\ "CBZ" \notin Ops(post)

\* C22: divwx leaves, on the fold, the immediate-divisor path and the
\* register path alike, the sign fill of the dividend when the divisor is 0
\* or the division is 0x80000000 / -1 and the quotient truncated toward zero
\* otherwise; the immediate-divisor path is taken only for divisors other
\* than 0 and 0xFFFFFFFF.
C22_SignedDivide ==
  DivRan =>
    /\ ~post.fault
    /\ DivSpecial =>
         GV(post, cur.RD) = (IF 31 \in Dividend THEN AllOnes32 ELSE Zero)
    /\ ~DivSpecial => IsQuotient(GV(post, cur.RD), Dividend, Divisor)
    /\ ImmDivisorPath =>
         IsImm(pre, cur.RB) /\ ~IsImm(pre, cur.RA) /\ Divisor \notin {Zero, AllOnes32}

\* 0x80000000 / -1 on registers takes the slow branch and leaves 0xFFFFFFFF
C22_Witness ==
  /\ DivRan /\ ~IsImm(pre, cur.RA) /\ ~IsImm(pre, cur.RB)
  /\ Dividend = SignBit32 /\ Divisor = AllOnes32
  /\ "CBZ" \in Ops(post)
  /\ GV(post, cur.RD) = AllOnes32

\* ------------------------------------------------------------------ C23
LogicalRan == Ran /\ Last(hist) \in {"slwx", "srwx"} /\ pc = "dispatch"
\* rB & 31
Low5(x) == Low6(x \cap (0..4))
\* s << n and s >> n on 32 bits, bit by bit
SlwRef(s, n) == {k \in B32 : k >= n /\ (k - n) \in s}
SrwRef(s, n) == {k \in B32 : k + n <= 31 /\ (k + n) \in s}
LogicalRef ==
  IF 5 \in GV(pre, cur.RB) THEN Zero
  ELSE IF Last(hist) = "slwx" THEN SlwRef(GV(pre, cur.RS), Low5(GV(pre, cur.RB)))
  ELSE SrwRef(GV(pre, cur.RS), Low5(GV(pre, cur.RB)))

\* C23: slwx and srwx leave 0 when bit 5 of rB is set and s shifted by
\* rB & 31 otherwise, on the fold, the immediate-amount path and the 64-bit
\* register path alike; with Rc = 1 the condition-register value is the sign
\* extension of that 32-bit result.
C23_LogicalShifts ==
  LogicalRan =>
    /\ ~post.fault
    /\ GV(post, cur.RA) = LogicalRef
    /\ cur.Rc => post.cr.t = "Reg" /\ post.cr.v = SExt32(LogicalRef)

\* slwx by 1 in registers of 0x40000000 with Rc: the 64-bit shift leaves
\* 0x80000000 and the condition register its sign extension
C23_Witness ==
  /\ LogicalRan /\ Last(hist) = "slwx" /\ cur.Rc
  /\ ~IsImm(pre, cur.RS) /\ ~IsImm(pre, cur.RB)
  /\ GV(pre, cur.RS) = {30} /\ GV(pre, cur.RB) = One
  /\ "LSLV" \in Ops(post)
  /\ GV(post, cur.RA) = SignBit32 /\ post.cr.v = 31..63

\* ------------------------------------------------------------------ C24
InsRan == Ran /\ Last(hist) = "rlwimix" /\ pc = "dispatch"
InsFolded == IsImm(pre, cur.RA) /\ IsImm(pre, cur.RS)
\* (rA & ~mask) | (RotateLeft(rS, SH) & mask) with the architectural mask
InsRef ==
  (GV(pre, cur.RA) \ ArchMask(cur.MB, cur.ME))
    \cup (RotateLeft(GV(pre, cur.RS), cur.SH) \cap ArchMask(cur.MB, cur.ME))
FullMask == ArchMask(cur.MB, cur.ME) = AllOnes32
\* the shortcut the non-folded path has to take, by the instruction's fields
InsShortcut ==
  IF cur.RA = cur.RS /\ cur.SH = 0 THEN {}
  ELSE IF FullMask THEN (IF cur.SH # 0 THEN {"ROR"} ELSE {"MOV"})
  ELSE IF cur.ME = 31 /\ (IF cur.SH = 0 THEN 0 ELSE 32 - cur.SH) + (32 - cur.MB) <= 32
  THEN {"BFXIL"}
  ELSE IF cur.MB > cur.ME THEN {"MOVI2R", "BIC", "AND", "ORR"}
  ELSE IF cur.SH = 0 THEN {"UBFX", "BFI"}
  ELSE IF (64 - cur.SH - cur.ME - 1) % 32 = 0 THEN {"BFI"}
  ELSE {"ROR", "BFI"}
\* instructions of the translator proper, without loads and spills of the cache
InsOps == Ops(post) \ {"LDR", "STR spill"}

\* C24: every shortcut of the non-folded path of rlwimix (nothing, rotate or
\* move, BFXIL, UBFX+BFI, BFI with optional ROR, BIC/AND/ORR) leaves
\* (rA & ~mask) | (RotateLeft(rS, SH) & mask), the value the both-immediate
\* path folds, for SH, MB, ME in 0..31, also when rA and rS are the same
\* register.
C24_RlwimixShortcuts ==
  InsRan =>
    /\ ~post.fault
    /\ post.locked = {}
    /\ GV(post, cur.RA) = InsRef
    /\ InsFolded => IsImm(post, cur.RA) /\ post.code = <<>>
    /\ ~InsFolded /\ ~IsImm(pre, cur.RA) /\ ~IsImm(pre, cur.RS) => InsOps = InsShortcut

\* rlwimi rA, rA, 8, 24, 27 on one register: ROR by 28 into a temporary,
\* then BFI at bit 4; 0x86C3C219 becomes 0x86C3C289
C24_Witness ==
  /\ InsRan /\ cur.RA = cur.RS /\ ~IsImm(pre, cur.RS)
  /\ cur.SH = 8 /\ cur.MB = 24 /\ cur.ME = 27
  /\ GV(pre, cur.RS) = {0, 3, 4, 9, 14, 15, 16, 17, 22, 23, 25, 26, 31}
  /\ InsOps = {"ROR", "BFI"}
  /\ GV(post, cur.RA) = {0, 3, 7, 9, 14, 15, 16, 17, 22, 23, 25, 26, 31}

\* ------------------------------------------------------------------ C25
RC0Ran == Ran /\ Last(hist) \in {"ComputeRC0_imm", "ComputeRC0_reg"} /\ pc = "dispatch"
RC0Value == GV(pre, 0)
RC0Code == [k \in DOMAIN post.code |-> post.code[k].op]

\* C25: ComputeRC0 with the immediate v and ComputeRC0 with a host register
\* holding v both leave CR field 0 bound to a host register holding the
\* 64-bit sign extension of v: a load of v followed by a sign extension only
\* when bit 31 of v is set, resp. an unconditional sign extension.
C25_ComputeRC0Agree ==
  RC0Ran =>
    /\ post.cr = Slot("Reg", SExt32(RC0Value))
    /\ post.gpr = pre.gpr
    /\ Last(hist) = "ComputeRC0_imm" =>
         RC0Code \in {<<"MOVI2R">>, <<"MOVI2R", "SXTW">>, <<"STR spill", "MOVI2R">>,
                      <<"STR spill", "MOVI2R", "SXTW">>}
         /\ ("SXTW" \in Ops(post) <=> 31 \in RC0Value)
    /\ Last(hist) = "ComputeRC0_reg" => RC0Code \in {<<"SXTW">>, <<"STR spill", "SXTW">>}

\* the immediate 0x80000001 into an unbound field handed a register of ones
C25_Witness ==
  /\ RC0Ran /\ Last(hist) = "ComputeRC0_imm"
  /\ RC0Value = {0, 31} /\ pre.cr.t = "Mem" /\ pre.stale = Garbage
  /\ post.cr = Slot("Reg", {0} \cup (31..63))

\* ------------------------------------------------------------------ C26
FcmpRan == Ran /\ Last(hist) = "fcmpX" /\ pc = "dispatch"
Tracked == pre.bFPRF /\ pre.wantsFPRF
\* how many times op was emitted
Emitted(x, op) == Cardinality({k \in DOMAIN x.code : x.code[k].op = op})
\* the class of the outcome: equal 2, unordered 1, greater 4, less 8, at bit 12
OutcomeClass ==
  CASE post.fcmp = "EQ" -> {13}
    [] post.fcmp = "UN" -> {12}
    [] post.fcmp = "GT" -> {14}
    [] post.fcmp = "LT" -> {15}

\* C26: fcmpX changes only the result-class field of FPSCR. With FPRF
\* enabled and wanted FPSCR is loaded, bits 12..16 are cleared, the one class
\* of the branch taken is ORed in and the word is stored, all other bits as
\* they were; otherwise FPSCR is neither loaded nor stored; with both
\* operands the same register only the equal and unordered outcomes are
\* emitted.
C26_FcmpFrame ==
  FcmpRan =>
    /\ ~post.fault /\ post.skip = "" /\ post.locked = {}
    /\ post.fcmp = FCompare(pre.fval[cur.FA][1], pre.fval[cur.FB][1])
    /\ post.fval = pre.fval /\ post.gpr = pre.gpr /\ post.xer_ca = pre.xer_ca
    /\ post.carryFlag = pre.carryFlag
    /\ Tracked =>
         /\ post.fpscr \ (12..16) = pre.fpscr \ (12..16)
         /\ post.fpscr \cap (12..16) = OutcomeClass
         /\ Emitted(post, "LDR fpscr") = 1 /\ Emitted(post, "STR fpscr") = 1
         /\ Emitted(post, "ORRI2R") = (IF cur.FA = cur.FB THEN 2 ELSE 4)
    /\ ~Tracked =>
         /\ post.fpscr = pre.fpscr
         /\ Ops(post) \cap {"LDR fpscr", "STR fpscr", "ORRI2R", "ANDI2R"} = {}
    /\ cur.FA = cur.FB =>
         /\ Ops(post) \cap {"B.GT", "B.MI"} = {}
         /\ post.fcmp \in {"EQ", "UN"}
    /\ cur.FA # cur.FB => {"B.GT", "B.MI", "B.VS"} \subseteq Ops(post)

\* -1.0 against 1.0 with FPSCR all ones: the field becomes 'less' (bit 15)
\* and every other bit stays set
C26_Witness ==
  /\ FcmpRan /\ Tracked /\ cur.FA # cur.FB
  /\ pre.fpscr = AllOnes32
  /\ pre.fval[cur.FA][1] = (52..61) \cup {63} /\ pre.fval[cur.FB][1] = 52..61
  /\ post.fcmp = "LT"
  /\ post.fpscr = AllOnes32 \ {12, 13, 14, 16}

\* ------------------------------------------------------------------ C27
PairSlow ==
  /\ Ran /\ Last(hist) \in Pairs /\ pc = "dispatch"
  /\ post.wrote # <<>> /\ post.wrote[1] \in {"cdts", "cstd"}
\* position of the one instruction op in the emitted code
At(op) == CHOOSE k \in DOMAIN post.code : post.code[k].op = op
\* the instructions between the push and the pop of the caller-saved registers
Between == [k \in 1..(At("POP") - At("PUSH") - 1) |-> post.code[At("PUSH") + k].op]

\* C27: on the slow path of the paired conversions lane 0 of the source is
\* read before the first call and lane 1 before the first write to the
\* destination, and the destination receives the first call's result in
\* lane 0 and the second call's in lane 1, also when destination and source
\* are the same host register.
C27_PairInPlace ==
  PairSlow =>
    \* read lane 0, call, read lane 1, write lane 0, call, insert lane 1
    /\ Between = <<"FMOV", "BL", "UMOV", "FMOV", "BL", "INS">>
    /\ post.wrote = <<Routine, Routine>>
    /\ Last(hist) = "ConvertDoubleToSinglePair" =>
         Dest = <<ConvertToSingle(Src[1]) \cup Lsl(ConvertToSingle(Src[2]), 32, 64), Zero>>
    /\ Last(hist) = "ConvertSingleToDoublePair" =>
         Dest = <<ConvertToDouble(Trunc32(Src[1])), ConvertToDouble(Lsr(Src[1], 32))>>

\* two different doubles converted in place, the upper one not zero: each
\* half of the destination holds the single of its own source lane
C27_Witness ==
  /\ PairSlow /\ Last(hist) = "ConvertDoubleToSinglePair"
  /\ cur.dest_reg = cur.src_reg
  /\ Src[2] # Zero /\ Src[1] # Src[2]
  /\ Dest[1] = ConvertToSingle(Src[1]) \cup Lsl(ConvertToSingle(Src[2]), 32, 64)
  /\ Lsr(Dest[1], 32) # Zero

\* ------------------------------------------------------------------ C28
\* the block is over: its last translator and FlushCarry have both run
BlockDone == Ran /\ pc = "done"

UpperHalfZero(x) == \A i \in Regs : x.gpr[i].t = "Reg" => x.gpr[i].v \subseteq B32
\* the translators that write the 64-bit view of their destination
Wide == {"slwx", "srwx", "srawx", "mulhwx", "mulhwux"}

\* C29: after the code of any integer translator has run, and after the
\* flush that ends the block, every host register bound to a guest
\* general-purpose register holds zero in bits 32..63, whatever the
\* register held when it was handed out; so cmpl and cmpli, which read
\* the 64-bit views, leave zext32(A) - zext32(B) also for an operand that
\* slwx, srwx, srawx, mulhwx or mulhwux has just written.
C29_ZeroUpperHalf ==
  /\ UpperHalfZero(pre) /\ UpperHalfZero(post) /\ UpperHalfZero(m)
  /\ Ran /\ Last(hist) \in UnsignedCompares =>
       post.cr.v = Sub64(OperandA, OperandB).v

\* mulhwx of 0x80000000 by itself left 0x40000000 in a register that was
\* handed out full of ones; cmpl then finds it below 0x80000000
C29_Witness ==
  /\ Len(hist) = 2 /\ hist[1] = "mulhwx" /\ Last(hist) = "cmpl"
  /\ pre.stale = Garbage
  /\ pre.gpr[cur.RA] = Slot("Reg", {30})
  /\ pre.gpr[cur.RB] = Slot("Reg", SignBit32)
  /\ 63 \in post.cr.v

\* ------------------------------------------------------------------ C30
\* the carry byte of the guest state holds 0 or 1
ByteIsBit(x) == x.xer_ca \in {Zero, One}
\* a consumer that read its carry-in from the guest state
LoadsByte ==
  /\ Ran /\ Last(hist) \in Consumers
  /\ pre.carryFlag = InPPCState /\ "LDRB xer_ca" \in Ops(post)
\* the consumer's sum with the byte on entry as its carry-in
SumWithByte ==
  LET A == GV(pre, cur.RA)
      B == GV(pre, cur.RB)
      cin == pre.xer_ca = One
  IN  CASE Last(hist) = "addex" -> Add32(A, B, cin)
        [] Last(hist) = "subfex" -> Add32(Not32(A), B, cin)
        [] Last(hist) = "addzex" -> Add32(A, Zero, cin)
        [] Last(hist) = "subfzex" -> Add32(Not32(A), Zero, cin)

\* C30: the carry byte is 0 or 1 on entry to every instruction, after
\* every translator (after each store emitted by ComputeCarry(reg)) and
\* after FlushCarry; a consumer that loads it leaves the sum that has the
\* byte as its carry-in, whether it adds the loaded byte or first sets the
\* host carry by comparing it with 1, and when its carry-out is wanted
\* the tracker denotes the carry-out of that sum.
C30_CarryByteIsBit ==
  /\ ByteIsBit(pre) /\ ByteIsBit(post) /\ ByteIsBit(m)
  /\ LoadsByte =>
       /\ GV(post, cur.RD) = SumWithByte.v
       /\ pre.wantsCA => LogicalCarry(post) = SumWithByte.c

\* subfex loaded a byte of 1, set the host carry from it by CMP, left a
\* carry-out of 0 in the host flags, and FlushCarry stored it as 0
C30_Witness ==
  /\ BlockDone /\ LoadsByte /\ Last(hist) = "subfex"
  /\ pre.xer_ca = One /\ pre.wantsCA
  /\ "CMP" \in Ops(post) /\ "ADCS" \in Ops(post)
  /\ post.carryFlag = InHostCarry /\ ~SumWithByte.c
  /\ "CSET" \in Ops(m) /\ "STRB xer_ca" \in Ops(m)
  /\ m.xer_ca = Zero
====
